---------------------------- MODULE Spec2Model ----------------------------
(***************************************************************************)
(* The droppy file-tree index (services/filetree.js) and its coherence     *)
(* protocol: the in-memory map `dirs`, the mutation operations that touch  *)
(* the disk and then patch the map, the watcher-driven full rescan, the    *)
(* suppression window of lookAway and the debounced update bus.            *)
(*                                                                         *)
(* Path strings are sequences of one-character strings, so that            *)
(* path.dirname, path.basename, indexOf and countOccurences are computed   *)
(* on characters exactly as the code computes them.                        *)
(***************************************************************************)
EXTENDS Integers, Sequences, FiniteSets, TLC

VARIABLES
    disk,       \* the real filesystem under the root: virtual path -> node
    dirs,       \* filetree.js `let dirs = {}`: the index
    todoDirs,   \* filetree.js `let todoDirs = []`: the pending update set
    initial,    \* filetree.js `let initial = true`
    watching,   \* filetree.js `let watching = true`
    timer,      \* filetree.js `let timer = null`: handle of the armed timeout
    cfg,        \* filetree.js `let cfg = null`: the configuration
    now,        \* the wall clock, in ms (Date.now())
    lookQ,      \* runtime timer queue: deadlines of pending lookAway timeouts
    drainAt,    \* deadline of the pending debouncedUpdate invocation, or Null
    scanQ,      \* number of rescans scheduled by updateAll and not yet started
    scans,      \* the updateDir(null) calls in flight, oldest first
    emitted,    \* the paths of the 'update' events the most recent drain emitted
    crashed,    \* an exception escaped a callback: the process has exited
    res,        \* history: number and outcome of the mutation operations so far
    lastLook,   \* history: time of the most recent lookAway call, or Null
    threw,      \* history: an exception left a patch of the index unfinished
    lastMut,    \* history: what the latest successful disk step made of a path
    util,       \* utils.js: lastIndex of filenameReservedRegex (a regular
                \* expression with the g flag keeps it from one test() to the
                \* next), and the latest call of a path function with its
                \* argument and its result
    sess,       \* the client session: config.readOnly the handlers are given,
                \* the error messages the latest request was answered with, and
                \* the items a batch request has still to process
    links,      \* db.get("links"): share link -> [location]
    cli,        \* a run of the droppy-remote command: its arguments, where it
                \* is, what the server answered and the exit status
    evt         \* history: what became of the latest watcher event, the number
                \* of rescans scheduled so far, and the number of 'updateall'
                \* notifications emitted (updateDir has no callback parameter:
                \* the function updateAll passes, which emits it, is never
                \* called); `external` follows a change made by another
                \* process: none, pending (chokidar has still to report it),
                \* reported;
                \* `read` is the disk as the latest traversal has read it

vars == <<disk, dirs, todoDirs, initial, watching, timer, cfg, now, lookQ,
          drainAt, scanQ, scans, emitted, crashed, res,
          lastLook, threw, lastMut, sess, evt, util, links, cli>>

-----------------------------------------------------------------------------
(* Bounds of the model *)

MaxTime == 6200
MaxOps == 2
MaxScans == 1
MaxSize == 2
MaxBurst == 2

(* Program constants *)

WATCHER_DELAY == 3000
DEBOUNCE_WAIT == 100

Null == -1

-----------------------------------------------------------------------------
(* Strings as sequences of characters *)

Slash == <<"/">>
Root == <<"/">>
NameA == <<"a">>
NameB == <<"b">>

Max(S) == CHOOSE x \in S : \A y \in S : y <= x

\* s.indexOf(sub) === 0
StartsWith(s, sub) ==
    /\ Len(sub) <= Len(s)
    /\ SubSeq(s, 1, Len(sub)) = sub

\* position of the last "/" of p (0 when there is none)
LastSlash(p) ==
    LET I == {i \in 1..Len(p) : p[i] = "/"}
    IN  IF I = {} THEN 0 ELSE Max(I)

\* path.dirname(p), for the absolute paths the index is keyed by
dirname(p) ==
    LET i == LastSlash(p)
    IN  IF i <= 1 THEN Root ELSE SubSeq(p, 1, i - 1)

\* path.basename(p)
basename(p) == SubSeq(p, LastSlash(p) + 1, Len(p))

\* path.posix.join(dir, file)
join(dir, file) == IF dir = Root THEN Root \o file ELSE dir \o Slash \o file

\* utils.countOccurences(string, "/")
countOccurences(s) == Cardinality({i \in 1..Len(s) : s[i] = "/"})

\* new RegExp(`^${escRe(src)}/`).test(d)
UnderDir(d, src) == StartsWith(d, src \o Slash)

\* ancestors on the disk: every proper prefix of p that ends before a "/"
Ancestors(p) ==
    {Root} \cup {SubSeq(p, 1, i - 1) : i \in {j \in 2..Len(p) : p[j] = "/"}}

-----------------------------------------------------------------------------
(* The index: dirs[p] = {files: {name: {size, mtime}}, size, mtime}.       *)
(* A key can hold `undefined` (dirs[dst] = dirs[src] with src not a key).  *)

Undef == [undef |-> TRUE]

DirEntry(files, size, mtime) == [files |-> files, size |-> size, mtime |-> mtime]
FileEntry(size, mtime) == [size |-> size, mtime |-> mtime]
NoFiles == [n \in {} |-> Undef]

\* the JavaScript test `dirs[p]` (a missing key and undefined are both falsy)
Truthy(d, p) == p \in DOMAIN d /\ d[p] # Undef

\* dirs[p] = e
Put(d, p, e) == [x \in DOMAIN d \cup {p} |-> IF x = p THEN e ELSE d[x]]

\* delete dirs[p] for every p of S
Remove(d, S) == [x \in DOMAIN d \ S |-> d[x]]

\* dirs[p].files[name] = fe
PutFile(d, p, name, fe) ==
    [d EXCEPT ![p].files =
        [n \in DOMAIN d[p].files \cup {name} |->
            IF n = name THEN fe ELSE d[p].files[n]]]

\* delete dirs[p].files[name]
RemoveFile(d, p, name) ==
    [d EXCEPT ![p].files = [n \in DOMAIN d[p].files \ {name} |-> d[p].files[n]]]

\* dirs[dirname].files[basename], undefined when the name is not there
GetFile(d, p) ==
    IF basename(p) \in DOMAIN d[dirname(p)].files
    THEN d[dirname(p)].files[basename(p)]
    ELSE Undef

RECURSIVE SumSizes(_, _)
SumSizes(files, names) ==
    IF names = {} THEN 0
    ELSE LET n == CHOOSE x \in names : TRUE
         IN  files[n].size + SumSizes(files, names \ {n})

\* an entry on which updateDirSizes raises a TypeError
BadEntry(d, p) ==
    IF d[p] = Undef THEN TRUE
    ELSE \E n \in DOMAIN d[p].files : d[p].files[n] = Undef

RECURSIVE SortByDepthDesc(_)
\* Object.keys(dirs) sorted by descending number of "/"
SortByDepthDesc(S) ==
    IF S = {} THEN <<>>
    ELSE LET m == Max({countOccurences(p) : p \in S})
             p == CHOOSE x \in S : countOccurences(x) = m
         IN  <<p>> \o SortByDepthDesc(S \ {p})

RECURSIVE OwnSizes(_, _, _)
\* first loop of updateDirSizes: size = sum of the directory's own files
OwnSizes(d, todo, i) ==
    IF i > Len(todo) THEN d
    ELSE OwnSizes([d EXCEPT ![todo[i]].size =
                      SumSizes(d[todo[i]].files, DOMAIN d[todo[i]].files)],
                  todo, i + 1)

RECURSIVE RollUp(_, _, _)
\* second loop of updateDirSizes: add each size to the parent, deepest first
RollUp(d, todo, i) ==
    IF i > Len(todo) THEN d
    ELSE LET k == todo[i]
             par == dirname(k)
         IN  IF par # Root /\ Truthy(d, par)
             THEN RollUp([d EXCEPT ![par].size = d[par].size + d[k].size],
                         todo, i + 1)
             ELSE RollUp(d, todo, i + 1)

\* mutant: the sizes are not reset before the files are added up
updateDirSizesNoReset(d) ==
    LET todo == SortByDepthDesc(DOMAIN d)
        Add(p) == d[p].size + SumSizes(d[p].files, DOMAIN d[p].files)
    IN  RollUp([p \in DOMAIN d |-> [d[p] EXCEPT !.size = Add(p)]], todo, 1)

\* updateDirSizes() when no entry raises
updateDirSizes(d) ==
    LET todo == SortByDepthDesc(DOMAIN d)
    IN  RollUp(OwnSizes(d, todo, 1), todo, 1)

\* updateDirSizes() raises a TypeError
UpdateThrows(d) == \E p \in DOMAIN d : BadEntry(d, p)

\* The indexes updateDirSizes can leave behind when it raises: the first
\* loop has reset every directory sorted before the first bad entry. Keys
\* of equal depth keep their insertion order, which is not tracked here, so
\* any subset of the good keys of that depth may have been reset.
PartialSizes(d) ==
    LET bad  == {p \in DOMAIN d : BadEntry(d, p)}
        D    == Max({countOccurences(p) : p \in bad})
        deep == {p \in DOMAIN d : countOccurences(p) > D}
        tie  == {p \in DOMAIN d \ bad : countOccurences(p) = D}
    IN  {OwnSizes(d, SortByDepthDesc(deep \cup S), 1) : S \in SUBSET tie}

-----------------------------------------------------------------------------
(* The disk under the root: path -> node. Every node's parent is a         *)
(* directory node; the root is always there.                               *)

DiskDir == [dir |-> TRUE, size |-> 0, read |-> TRUE]
DiskFile(size) == [dir |-> FALSE, size |-> size, read |-> TRUE]
\* a directory whose entries cannot be read (readdir fails with EACCES)
LockedDir == [dir |-> TRUE, size |-> 0, read |-> FALSE]

\* fs.stat(utils.addFilesPath(p))
stat(p) ==
    IF p \notin DOMAIN disk THEN "ENOENT"
    ELSE IF disk[p].dir THEN "dir" ELSE "file"

IsDiskDir(p) == p \in DOMAIN disk /\ disk[p].dir
IsDiskFile(p) == p \in DOMAIN disk /\ ~disk[p].dir
DiskUnder(p) == {q \in DOMAIN disk : UnderDir(q, p)}

\* a new name can be created at p: the parent is a directory
CanCreate(p) == IsDiskDir(dirname(p))

\* the configured ignore patterns match p (patterns are bare names, matched
\* against every segment as rrdir's `exclude` globs `**/name` are)
Ignored(p) ==
    \E n \in cfg.ignorePatterns :
        \/ basename(p) = n
        \/ \E q \in Ancestors(p) : q # Root /\ basename(q) = n

-----------------------------------------------------------------------------
(* Timers and the update bus *)

\* mutant: lookAway without clearTimeout(timer)
lookAwayNoClear ==
    /\ watching' = FALSE
    /\ lookQ' = lookQ \cup {now + WATCHER_DELAY}
    /\ timer' = now + WATCHER_DELAY
    /\ lastLook' = now

\* lookAway(): watching = false; clearTimeout(timer); timer = setTimeout(...)
lookAway ==
    /\ watching' = FALSE
    /\ lookQ' = (lookQ \ {timer}) \cup {now + WATCHER_DELAY}
    /\ timer' = now + WATCHER_DELAY
    /\ lastLook' = now

\* the callback armed by lookAway: () => { watching = true }
TimerFire ==
    /\ ~crashed
    /\ \E t \in lookQ :
          /\ t <= now
          /\ lookQ' = lookQ \ {t}
    /\ watching' = TRUE
    /\ UNCHANGED <<cli, links, util, sess, lastMut, evt, disk, dirs, todoDirs, initial, timer, cfg, now, drainAt,
                   scanQ, scans, emitted, crashed, res, lastLook, threw>>

RECURSIVE SortByDepthAsc(_)
\* Array.prototype.sort by ascending number of "/" (the sort is stable)
SortByDepthAsc(s) ==
    IF s = <<>> THEN <<>>
    ELSE LET m == CHOOSE x \in {countOccurences(s[i]) : i \in 1..Len(s)} :
                     \A j \in 1..Len(s) : x <= countOccurences(s[j])
             k == CHOOSE i \in 1..Len(s) :
                     /\ countOccurences(s[i]) = m
                     /\ \A j \in 1..(i - 1) : countOccurences(s[j]) # m
         IN  <<s[k]>> \o SortByDepthAsc(SubSeq(s, 1, k - 1) \o SubSeq(s, k + 1, Len(s)))

\* self.every(another => another === path || path.indexOf(`${another}/`) !== 0)
NotCovered(path, self) ==
    \A i \in 1..Len(self) :
        self[i] = path \/ ~StartsWith(path, self[i] \o Slash)

\* filterDirs(dirs): sort, drop covered paths, drop repeated paths
filterDirs(s) ==
    LET sorted == SortByDepthAsc(s)
        kept   == SelectSeq(sorted, LAMBDA x : NotCovered(x, sorted))
        first(i) == \A j \in 1..(i - 1) : kept[j] # kept[i]
        idx    == {i \in 1..Len(kept) : first(i)}
        RECURSIVE pick(_)
        pick(i) == IF i > Len(kept) THEN <<>>
                   ELSE IF i \in idx THEN <<kept[i]>> \o pick(i + 1)
                   ELSE pick(i + 1)
    IN  pick(1)

\* the trailing invocation of debouncedUpdate, 100 ms after the last call
Drain ==
    /\ ~crashed
    /\ drainAt # Null
    /\ drainAt <= now
    /\ emitted' = filterDirs(todoDirs)
    /\ todoDirs' = <<>>
    /\ drainAt' = Null
    /\ UNCHANGED <<cli, links, util, sess, lastMut, evt, disk, dirs, initial, watching, timer, cfg, now, lookQ,
                   scanQ, scans, crashed, res, lastLook, threw>>

\* this.update(m) for each m of marks, on the patched index d1, returning
\* normally: updateDirSizes(); todoDirs.push(m); this.debouncedUpdate()
Commit(d1, marks) ==
    /\ ~UpdateThrows(d1)
    /\ dirs' = updateDirSizes(d1)
    /\ todoDirs' = todoDirs \o marks
    /\ drainAt' = now + DEBOUNCE_WAIT

\* this.update(...) raising inside an async function: the promise rejects
\* with the patch applied and the sizes half recomputed
CommitThrows(d1) ==
    /\ UpdateThrows(d1)
    /\ dirs' \in PartialSizes(d1)
    /\ UNCHANGED <<todoDirs, drainAt>>

\* an exception escaping a callback of utils.rm/rmdir/move/copyFile is an
\* uncaught exception: the process exits and the index is gone
Crash ==
    /\ crashed' = TRUE
    /\ threw' = TRUE
    /\ UNCHANGED <<dirs, todoDirs, drainAt>>

\* the pending deadlines of the runtime's timer queue
Deadlines == lookQ \cup (IF drainAt = Null THEN {} ELSE {drainAt})

\* time passes, by one of `steps` or up to a pending deadline; a timer that
\* is due runs before time passes any further
Tick(steps, limit) ==
    /\ ~crashed
    /\ scanQ = 0
    /\ \E d \in steps \cup {t - now : t \in {u \in Deadlines : u > now}} :
          /\ now + d <= limit
          /\ \A t \in Deadlines : now + d <= t
          /\ now' = now + d
    /\ UNCHANGED <<cli, links, util, sess, lastMut, evt, disk, dirs, todoDirs, initial, watching, timer, cfg, lookQ,
                   drainAt, scanQ, scans, emitted, crashed, res, lastLook,
                   threw>>

-----------------------------------------------------------------------------
(* The watcher and the full rescan *)

\* mtime reported by the traversal's stats; disk mtimes are not modelled
StatMtime == 0

\* what the traversal returns for a path: `dir` for an entry with the
\* directory flag and stats, `err` for an entry {path, err} without them. A
\* directory that cannot be read is listed by its parent and gets the
\* error entry of its own readdir as well
WalkEntry(dir, size, err) == [dir |-> dir, size |-> size, err |-> err]

\* rrdir(fullDir, {exclude: cfg.ignorePatterns}) rooted at `root`: every node
\* below the root that no ignore pattern matches (an excluded directory and a
\* directory that cannot be read are not entered); the root alone, as an
\* error entry, when it cannot be read at all
WalkFrom(dsk, root) ==
    IF root \notin DOMAIN dsk
    THEN [p \in {root} |-> WalkEntry(FALSE, 0, "ENOENT")]
    ELSE IF ~dsk[root].read
    THEN [p \in {root} |-> WalkEntry(FALSE, 0, "EACCES")]
    ELSE [p \in {q \in DOMAIN dsk :
                    /\ IF root = Root THEN q # Root ELSE UnderDir(q, root)
                    /\ ~Ignored(q)
                    /\ \A a \in Ancestors(q) : dsk[a].read} |->
             WalkEntry(dsk[p].dir, dsk[p].size,
                       IF dsk[p].read THEN "" ELSE "EACCES")]

Walk(dsk) == WalkFrom(dsk, Root)

NoWalk == [p \in {} |-> WalkEntry(FALSE, 0, "")]

\* readDirs and readFiles of updateDir: the entries with and without the
\* directory flag; an error entry has no flag
ReadDirs(snap) == {p \in DOMAIN snap : snap[p].dir}
ReadFiles(snap) == {p \in DOMAIN snap : ~snap[p].dir \/ snap[p].err # ""}

\* the loop of updateDir over the entries with `err`: a key of the index
\* whose entry failed with ENOENT is deleted
DropMissing(d, snap) ==
    Remove(d, {p \in DOMAIN snap : snap[p].err = "ENOENT" /\ Truthy(d, p)})

\* readDirKeys.includes(path): readDirKeys is an array that only ever gets
\* named properties (readDirKeys[path] = path), so it has no elements
ReadDirKeysIncludes(path) == FALSE

RECURSIVE AddFiles(_, _, _)
\* "Add files" of updateDirInCache
AddFiles(d, snap, fs) ==
    IF fs = {} THEN d
    ELSE LET f  == CHOOSE x \in fs : TRUE
             pd == dirname(f)
             size == IF snap[f].err # "" THEN 0 ELSE snap[f].size
             d1 == PutFile(d, pd, basename(f), FileEntry(size, StatMtime))
         IN  AddFiles([d1 EXCEPT ![pd].size = d1[pd].size + size],
                      snap, fs \ {f})

\* "Add files" reaches a file whose parent directory is not in the index
AddFilesThrows(d, snap) ==
    \E f \in ReadFiles(snap) : ~Truthy(d, dirname(f))

\* updateDirInCache up to "Add dirs": the root entry is replaced, nothing is
\* removed (see ReadDirKeysIncludes), every directory read gets a new entry
CacheDirs(d, root, snap) ==
    LET readDirs == ReadDirs(snap)
        d1 == Put(d, root, DirEntry(NoFiles, 0, StatMtime))
        gone == {p \in DOMAIN d1 :
                    StartsWith(p, root) /\ ReadDirKeysIncludes(p) /\ p # root}
        d2 == Remove(d1, gone)
    IN  [p \in DOMAIN d2 \cup readDirs |->
            IF p \in readDirs THEN DirEntry(NoFiles, 0, StatMtime) ELSE d2[p]]

\* updateDirInCache(root, stat, readDirs, readFiles) up to its update(root)
updateDirInCache(d, root, snap) ==
    AddFiles(CacheDirs(d, root, snap), snap, ReadFiles(snap))

\* the tail of updateDir: the loop over the error entries, updateDirInCache
\* and its update(root)
ApplyWalk(root, snap) ==
    LET d0 == DropMissing(dirs, snap)
        d3 == CacheDirs(d0, root, snap)
    IN  IF AddFilesThrows(d3, snap)
        THEN /\ dirs' = d3
             /\ threw' = TRUE
             /\ UNCHANGED <<todoDirs, drainAt>>
        ELSE LET d4 == updateDirInCache(d0, root, snap)
             IN  \/ /\ Commit(d4, <<root>>)
                    /\ UNCHANGED threw
                 \/ /\ CommitThrows(d4)
                    /\ threw' = TRUE

\* mutant: the handler calls updateAll() without testing `watching`
WatchEventAlways ==
    /\ ~crashed
    /\ ~initial
    /\ evt.scheduled < MaxScans
    /\ scanQ' = scanQ + 1
    /\ evt' = [evt EXCEPT !.last = "accepted", !.scheduled = @ + 1]
    /\ UNCHANGED <<cli, links, util, sess, lastMut, disk, dirs, todoDirs, initial, watching, timer, cfg, now,
                   lookQ, drainAt, scans, emitted, crashed, res, lastLook,
                   threw>>

\* chokidar's "all" handler: if (watching) this.updateAll(). updateAll wraps
\* the rescan in a fresh debounce(fn) with no wait and calls it at once:
\* every accepted event schedules its own rescan on a zero timeout
\* (`limit` bounds the rescans of a run)
WatchEvents(limit) ==
    /\ ~crashed
    /\ ~initial
    /\ IF watching
       THEN /\ evt.scheduled < limit
            /\ scanQ' = scanQ + 1
            /\ evt' = [evt EXCEPT !.last = "accepted", !.scheduled = @ + 1]
       ELSE /\ UNCHANGED scanQ
            /\ evt' = [evt EXCEPT !.last = "dropped"]
    /\ UNCHANGED <<cli, links, util, sess, lastMut, disk, dirs, todoDirs, initial, watching, timer, cfg, now,
                   lookQ, drainAt, scans, emitted, crashed, res, lastLook,
                   threw>>

WatchEvent == WatchEvents(MaxScans)

\* updateDir(dir) with a directory, up to its first await: a rescan of the
\* subtree of `dir`; the index is not emptied
updateDir(roots, limit) ==
    /\ ~crashed
    /\ ~initial
    /\ evt.scheduled < limit
    /\ evt' = [evt EXCEPT !.scheduled = @ + 1]
    /\ \E r \in roots :
          scans' = Append(scans, [phase |-> "lstat", snap |-> NoWalk, root |-> r])
    /\ UNCHANGED <<cli, links, util, sess, lastMut, disk, dirs, todoDirs, initial, watching, timer, cfg, now,
                   lookQ, drainAt, scanQ, emitted, crashed, res, lastLook, threw>>

\* updateDir(null) up to its first await: dir = "/"; dirs = {}
ScanStart ==
    /\ ~crashed
    /\ scanQ > 0
    /\ scanQ' = scanQ - 1
    /\ dirs' = [p \in {} |-> Undef]
    /\ scans' = Append(scans, [phase |-> "lstat", snap |-> NoWalk, root |-> Root])
    /\ UNCHANGED <<cli, links, util, sess, lastMut, evt, disk, todoDirs, initial, watching, timer, cfg, now, lookQ,
                   drainAt, emitted, crashed, res, lastLook, threw>>

DropAt(s, i) == SubSeq(s, 1, i - 1) \o SubSeq(s, i + 1, Len(s))

\* updateDir after `await fs.lstat`: the first call walks synchronously and
\* patches the index at once; later calls start the asynchronous traversal,
\* which reads the disk
ScanWalk ==
    /\ ~crashed
    /\ \E i \in 1..Len(scans) :
          /\ scans[i].phase = "lstat"
          /\ IF initial
             THEN /\ initial' = FALSE
                  /\ scans' = DropAt(scans, i)
                  /\ ApplyWalk(scans[i].root, WalkFrom(disk, scans[i].root))
             ELSE /\ scans' = [scans EXCEPT ![i] =
                                  [phase |-> "walk",
                                   snap |-> WalkFrom(disk, scans[i].root),
                                   root |-> scans[i].root]]
                  /\ UNCHANGED <<initial, dirs, todoDirs, drainAt, threw>>
    /\ evt' = [evt EXCEPT !.read = disk]
    /\ UNCHANGED <<cli, links, util, sess, lastMut, disk, watching, timer, cfg, now, lookQ, scanQ, emitted,
                   crashed, res, lastLook>>

\* updateDir after `await rrdir.async`: updateDirInCache with what was read
ScanFinish ==
    /\ ~crashed
    /\ \E i \in 1..Len(scans) :
          /\ scans[i].phase = "walk"
          /\ scans' = DropAt(scans, i)
          /\ ApplyWalk(scans[i].root, scans[i].snap)
    /\ UNCHANGED <<cli, links, util, sess, lastMut, evt, disk, initial, watching, timer, cfg, now, lookQ, scanQ,
                   emitted, crashed, res, lastLook>>

-----------------------------------------------------------------------------
(* The mutation operations. Each is one step: lookAway, the disk          *)
(* operation, the patch of the index and update(). `fault` stands for a    *)
(* disk error that does not depend on the modelled state (EACCES, EIO).    *)

Serving == ~crashed /\ ~initial

\* the number of mutation requests of a run is bounded
MayMutate == Serving /\ res.seq < MaxOps

NoPatch == UNCHANGED <<dirs, todoDirs, drainAt>>

\* the operation ends: diskOk = its disk step succeeded, err = it reported an
\* error to its caller, thr = an exception interrupted its patch
Done(op, diskOk, err, thr) ==
    /\ res' = [seq |-> res.seq + 1, op |-> op, diskOk |-> diskOk, err |-> err]
    /\ threw' = (threw \/ thr)
    /\ UNCHANGED crashed

\* the operation's callback raised: uncaught exception
Died(op, diskOk) ==
    /\ res' = [seq |-> res.seq + 1, op |-> op, diskOk |-> diskOk, err |-> TRUE]
    /\ Crash

\* patch d1 and update(marks) inside an async function
PatchAsync(op, d1, marks) ==
    \/ /\ Commit(d1, marks)
       /\ Done(op, TRUE, FALSE, FALSE)
    \/ /\ CommitThrows(d1)
       /\ Done(op, TRUE, TRUE, TRUE)

\* patch d1 and update(marks) inside a callback; err = reject(err) was called
PatchCallback(op, diskOk, err, d1, marks) ==
    \/ /\ Commit(d1, marks)
       /\ Done(op, diskOk, err, FALSE)
    \/ /\ UpdateThrows(d1)
       /\ Died(op, diskOk)

MutFrame == UNCHANGED <<initial, cfg, now, scanQ, scans, emitted, evt>>

DiskPut(p, node) == [x \in DOMAIN disk \cup {p} |-> IF x = p THEN node ELSE disk[x]]
DiskRemove(S) == [x \in DOMAIN disk \ S |-> disk[x]]

\* mk(dir)
mk(dir, fault) ==
    /\ MayMutate
    /\ lookAway
    /\ MutFrame
    /\ IF stat(dir) # "ENOENT"
       THEN \* the path exists: nothing is done and nothing is reported
            /\ UNCHANGED disk /\ NoPatch
            /\ Done("mk", TRUE, FALSE, FALSE)
       ELSE IF fault \/ ~CanCreate(dir)
       THEN \* fs.open(..., "wx") rejects
            /\ UNCHANGED disk /\ NoPatch
            /\ Done("mk", FALSE, TRUE, FALSE)
       ELSE /\ disk' = DiskPut(dir, DiskFile(0))
            /\ IF ~Truthy(dirs, dirname(dir))
               THEN \* dirs[path.dirname(dir)] is undefined: TypeError
                    /\ NoPatch
                    /\ Done("mk", TRUE, TRUE, TRUE)
               ELSE PatchAsync("mk",
                        PutFile(dirs, dirname(dir), basename(dir), FileEntry(0, now)),
                        <<dirname(dir)>>)

\* utils.mkdir(dir): fs.mkdir with {recursive: true}
MkdirOk(dir) == \A q \in Ancestors(dir) : q \notin DOMAIN disk \/ disk[q].dir

MkdirDisk(dir) ==
    [x \in DOMAIN disk \cup Ancestors(dir) \cup {dir} |->
        IF x \in DOMAIN disk THEN disk[x] ELSE DiskDir]

\* mutant: mkdir marks the new directory itself instead of its parent
mkdirMarksSelf(dir, fault) ==
    /\ MayMutate
    /\ lookAway
    /\ MutFrame
    /\ IF stat(dir) # "ENOENT"
       THEN /\ UNCHANGED disk /\ NoPatch
            /\ Done("mkdir", TRUE, FALSE, FALSE)
       ELSE IF fault \/ ~MkdirOk(dir)
       THEN /\ UNCHANGED disk /\ NoPatch
            /\ Done("mkdir", FALSE, TRUE, FALSE)
       ELSE /\ disk' = MkdirDisk(dir)
            /\ PatchAsync("mkdir",
                   Put(dirs, dir, DirEntry(NoFiles, 0, now)),
                   <<dir>>)

\* mkdir(dir)
mkdir(dir, fault) ==
    /\ MayMutate
    /\ lookAway
    /\ MutFrame
    /\ IF stat(dir) # "ENOENT"
       THEN /\ UNCHANGED disk /\ NoPatch
            /\ Done("mkdir", TRUE, FALSE, FALSE)
       ELSE IF fault \/ ~MkdirOk(dir)
       THEN /\ UNCHANGED disk /\ NoPatch
            /\ Done("mkdir", FALSE, TRUE, FALSE)
       ELSE /\ disk' = MkdirDisk(dir)
            /\ PatchAsync("mkdir",
                   Put(dirs, dir, DirEntry(NoFiles, 0, now)),
                   <<dirname(dir)>>)

\* save(dst, data), data of `size` bytes
save(dst, size, fault) ==
    /\ MayMutate
    /\ lookAway
    /\ MutFrame
    /\ IF fault \/ ~CanCreate(dst) \/ IsDiskDir(dst)
       THEN \* fs.stat or fs.writeFile rejects
            /\ UNCHANGED disk /\ NoPatch
            /\ Done("save", FALSE, TRUE, FALSE)
       ELSE /\ disk' = DiskPut(dst, DiskFile(size))
            /\ IF ~Truthy(dirs, dirname(dst))
               THEN /\ NoPatch
                    /\ Done("save", TRUE, TRUE, TRUE)
               ELSE PatchAsync("save",
                        PutFile(dirs, dirname(dst), basename(dst), FileEntry(size, now)),
                        <<dirname(dst)>>)

\* unlink(dir): the callback of utils.rm goes on after reject(err)
unlink(dir, fault) ==
    /\ lookAway
    /\ disk' = IF fault THEN disk ELSE DiskRemove({dir})
    /\ IF ~Truthy(dirs, dirname(dir))
       THEN Died("unlink", ~fault)
       ELSE PatchCallback("unlink", ~fault, fault,
                RemoveFile(dirs, dirname(dir), basename(dir)),
                <<dirname(dir)>>)

\* unlinkdir with the keys matched by prefix alone, without the "/"
unlinkdirByPrefix(dir, fault) ==
    /\ lookAway
    /\ disk' = IF fault THEN disk ELSE DiskRemove({dir} \cup DiskUnder(dir))
    /\ PatchCallback("unlinkdir", ~fault, fault,
           Remove(dirs, {d \in DOMAIN dirs : StartsWith(d, dir)}),
           <<dirname(dir)>>)

\* unlinkdir(dir): the callback of utils.rmdir goes on after reject(err)
unlinkdir(dir, fault) ==
    /\ lookAway
    /\ disk' = IF fault THEN disk ELSE DiskRemove({dir} \cup DiskUnder(dir))
    /\ PatchCallback("unlinkdir", ~fault, fault,
           Remove(dirs, {dir} \cup {d \in DOMAIN dirs : UnderDir(d, dir)}),
           <<dirname(dir)>>)

\* del(dir)
del(dir, fault) ==
    /\ MayMutate
    /\ MutFrame
    /\ CASE stat(dir) = "ENOENT" ->
              \* fs.stat rejects before lookAway is reached
              /\ UNCHANGED <<disk, watching, timer, lookQ, lastLook>>
              /\ NoPatch
              /\ Done("del", FALSE, TRUE, FALSE)
         [] stat(dir) = "file" -> unlink(dir, fault)
         [] stat(dir) = "dir" -> unlinkdir(dir, fault)

\* fs.rename of a file: the destination's parent is a directory and the
\* destination is not a directory
RenameFileOk(src, dst) == CanCreate(dst) /\ ~IsDiskDir(dst)

\* fs.rename of a directory: the destination is free or an empty directory,
\* and is not below the source
RenameDirOk(src, dst) ==
    /\ CanCreate(dst)
    /\ ~UnderDir(dst, src)
    /\ \/ dst \notin DOMAIN disk
       \/ dst = src
       \/ IsDiskDir(dst) /\ DiskUnder(dst) = {}

\* dir.replace(new RegExp(`^${escRe(src)}/`), `${dst}/`), also for dir = src
Rekey(p, src, dst) == dst \o SubSeq(p, Len(src) + 1, Len(p))

\* the disk after the subtree at src has been renamed to dst
RenameDisk(src, dst) ==
    LET moved == {src} \cup DiskUnder(src)
        rest  == DOMAIN disk \ (moved \cup {dst})
    IN  [x \in rest \cup {Rekey(q, src, dst) : q \in moved} |->
            IF \E q \in moved : Rekey(q, src, dst) = x
            THEN disk[CHOOSE q \in moved : Rekey(q, src, dst) = x]
            ELSE disk[x]]

\* the disk after the subtree at src has been copied to dst
CopyDisk(src, dst) ==
    LET copied == {src} \cup DiskUnder(src)
    IN  [x \in DOMAIN disk \cup {Rekey(q, src, dst) : q \in copied} |->
            IF \E q \in copied : Rekey(q, src, dst) = x
            THEN disk[CHOOSE q \in copied : Rekey(q, src, dst) = x]
            ELSE disk[x]]

\* mv(src, dst): the callback of utils.move goes on after reject(err);
\* rej = the caller rejects whatever happens (clipboard)
mv(op, src, dst, fault, rej) ==
    LET ok == ~fault /\ RenameFileOk(src, dst)
    IN  /\ lookAway
        /\ disk' = IF ok THEN RenameDisk(src, dst) ELSE disk
        /\ IF ~Truthy(dirs, dirname(dst)) \/ ~Truthy(dirs, dirname(src))
           THEN Died(op, ok)
           ELSE PatchCallback(op, ok, ~ok \/ rej,
                    RemoveFile(PutFile(dirs, dirname(dst), basename(dst),
                                       GetFile(dirs, src)),
                               dirname(src), basename(src)),
                    <<dirname(src), dirname(dst)>>)

\* the patch of mvdir: dirs[dst] = dirs[src]; delete dirs[src]; then every
\* key below src is moved below dst (dst is not below src, so no moved key
\* lands on a key still to be moved)
MvdirPatch(d, src, dst) ==
    LET v  == IF src \in DOMAIN d THEN d[src] ELSE Undef
        d1 == Remove(Put(d, dst, v), {src})
        moved == {k \in DOMAIN d1 : UnderDir(k, src) /\ k # src /\ k # dst}
    IN  [x \in (DOMAIN d1 \ moved) \cup {Rekey(k, src, dst) : k \in moved} |->
            IF \E k \in moved : Rekey(k, src, dst) = x
            THEN d1[CHOOSE k \in moved : Rekey(k, src, dst) = x]
            ELSE d1[x]]

\* mvdir(src, dst): the callback of utils.move goes on after reject(err)
mvdir(op, src, dst, fault, rej) ==
    LET ok == ~fault /\ RenameDirOk(src, dst)
    IN  /\ lookAway
        /\ disk' = IF ok THEN RenameDisk(src, dst) ELSE disk
        /\ PatchCallback(op, ok, ~ok \/ rej,
               MvdirPatch(dirs, src, dst),
               <<dirname(src), dirname(dst)>>)

\* move(src, dst)
move(src, dst, fault) ==
    /\ MayMutate
    /\ MutFrame
    /\ CASE stat(src) = "ENOENT" ->
              /\ lookAway
              /\ UNCHANGED disk /\ NoPatch
              /\ Done("move", FALSE, TRUE, FALSE)
         [] stat(src) = "file" -> mv("mv", src, dst, fault, FALSE)
         [] stat(src) = "dir" -> mvdir("mvdir", src, dst, fault, FALSE)

\* cp(src, dst): on error the callback rejects and returns
cp(src, dst, fault) ==
    /\ lookAway
    /\ IF fault \/ ~CanCreate(dst) \/ IsDiskDir(dst)
       THEN /\ UNCHANGED disk /\ NoPatch
            /\ Done("cp", FALSE, TRUE, FALSE)
       ELSE /\ disk' = DiskPut(dst, disk[src])
            /\ IF \/ ~Truthy(dirs, dirname(dst))
                  \/ ~Truthy(dirs, dirname(src))
                  \/ GetFile(dirs, src) = Undef
               THEN \* TypeError in the callback of utils.copyFile
                    Died("cp", TRUE)
               ELSE PatchCallback("cp", TRUE, TRUE,
                        PutFile(dirs, dirname(dst), basename(dst),
                                [GetFile(dirs, src) EXCEPT !.mtime = now]),
                        <<dirname(dst)>>)

\* utils.copyDir(src, dst): fs.mkdir(dst) without `recursive`, then the copy
CopyDirOk(src, dst) == CanCreate(dst) /\ dst \notin DOMAIN disk /\ ~UnderDir(dst, src)

\* a cpdir that copies the entry of src and none of the directories below
cpdirBaseOnly(src, dst, fault) ==
    IF fault \/ ~CopyDirOk(src, dst)
       THEN /\ UNCHANGED disk /\ NoPatch
            /\ Done("cpdir", FALSE, TRUE, FALSE)
       ELSE /\ disk' = CopyDisk(src, dst)
            /\ IF ~Truthy(dirs, src)
               THEN /\ dirs' = Put(dirs, dst, Undef)
                    /\ UNCHANGED <<todoDirs, drainAt>>
                    /\ Done("cpdir", TRUE, TRUE, TRUE)
               ELSE /\ Commit(Put(dirs, dst, [dirs[src] EXCEPT !.mtime = now]),
                              <<dirname(dst)>>)
                    /\ Done("cpdir", TRUE, TRUE, FALSE)

\* cpdir(src, dst) from the moment utils.copyDir settles
cpdirCopied(src, dst, fault) ==
    IF fault \/ ~CopyDirOk(src, dst)
       THEN /\ UNCHANGED disk /\ NoPatch
            /\ Done("cpdir", FALSE, TRUE, FALSE)
       ELSE /\ disk' = CopyDisk(src, dst)
            /\ IF ~Truthy(dirs, src)
               THEN \* dirs[dst] = clone(undefined); dirs[dst].mtime raises
                    /\ dirs' = Put(dirs, dst, Undef)
                    /\ UNCHANGED <<todoDirs, drainAt>>
                    /\ Done("cpdir", TRUE, TRUE, TRUE)
               ELSE LET d1  == Put(dirs, dst, [dirs[src] EXCEPT !.mtime = now])
                        sub == {k \in DOMAIN d1 :
                                   UnderDir(k, src) /\ k # src /\ k # dst}
                        bad == {k \in sub : d1[k] = Undef}
                        Copy(S) ==
                            [x \in DOMAIN d1 \cup {Rekey(k, src, dst) : k \in S} |->
                                IF \E k \in S : Rekey(k, src, dst) = x
                                THEN LET k == CHOOSE k \in S : Rekey(k, src, dst) = x
                                     IN  IF d1[k] = Undef THEN Undef
                                         ELSE [d1[k] EXCEPT !.mtime = now]
                                ELSE d1[x]]
                    IN  IF bad = {}
                        THEN \/ /\ Commit(Copy(sub), <<dirname(dst)>>)
                                /\ Done("cpdir", TRUE, TRUE, FALSE)
                             \/ /\ CommitThrows(Copy(sub))
                                /\ Done("cpdir", TRUE, TRUE, TRUE)
                        ELSE \* the loop raises at the first undefined entry,
                             \* after copying the keys that came before it
                             /\ \E S \in SUBSET (sub \ bad), b \in bad :
                                   dirs' = Copy(S \cup {b})
                             /\ UNCHANGED <<todoDirs, drainAt>>
                             /\ Done("cpdir", TRUE, TRUE, TRUE)

\* cpdir(src, dst), an async function, when the copy takes no time
cpdir(src, dst, fault) ==
    /\ lookAway
    /\ cpdirCopied(src, dst, fault)

\* a clipboard whose last statement returns: the promise settles as the
\* sub-operation did
clipboardReturns(src, dst, type, fault) ==
    /\ MayMutate
    /\ MutFrame
    /\ CASE stat(src) = "ENOENT" ->
              /\ UNCHANGED <<disk, watching, timer, lookQ, lastLook>>
              /\ NoPatch
              /\ Done("clipboard", FALSE, TRUE, FALSE)
         [] stat(src) = "file" /\ type = "cut" -> mv("mv", src, dst, fault, FALSE)
         [] stat(src) = "file" /\ type # "cut" -> cp(src, dst, fault)
         [] stat(src) = "dir" /\ type = "cut" -> mvdir("mvdir", src, dst, fault, FALSE)
         [] stat(src) = "dir" /\ type # "cut" -> cpdir(src, dst, fault)

\* clipboard(src, dst, type): after the sub-operation it calls `callable`,
\* which is never assigned, so the returned promise always rejects
clipboard(src, dst, type, fault) ==
    /\ MayMutate
    /\ MutFrame
    /\ CASE stat(src) = "ENOENT" ->
              /\ UNCHANGED <<disk, watching, timer, lookQ, lastLook>>
              /\ NoPatch
              /\ Done("clipboard", FALSE, TRUE, FALSE)
         [] stat(src) = "file" /\ type = "cut" -> mv("mv", src, dst, fault, TRUE)
         [] stat(src) = "file" /\ type # "cut" -> cp(src, dst, fault)
         [] stat(src) = "dir" /\ type = "cut" -> mvdir("mvdir", src, dst, fault, TRUE)
         [] stat(src) = "dir" /\ type # "cut" -> cpdir(src, dst, fault)

-----------------------------------------------------------------------------
(* Paths of the request handlers (utils.js) *)

\* paths.get().files, the directory the virtual root "/" stands for; the
\* node disk[p] is the file or directory addFilesPath(p)
FilesDir == <<"/", "f">>

\* p.replace(/[\\|/]+/g, "/"): a run of the characters \, | and / becomes
\* one "/"
normalizePath(p) ==
    LET Sep(i) == p[i] \in {"\\", "|", "/"}
        First(i) == ~(Sep(i) /\ i > 1 /\ Sep(i - 1))
        kept == SelectSeq([i \in 1..Len(p) |-> i], First)
    IN  [k \in 1..Len(kept) |-> IF Sep(kept[k]) THEN "/" ELSE p[kept[k]]]

RECURSIVE splitOn(_, _)
\* p.split(separator), in order, for a separator of one character of seps
splitOn(p, seps) ==
    IF \A i \in 1..Len(p) : p[i] \notin seps THEN <<p>>
    ELSE LET i == CHOOSE j \in 1..Len(p) :
                      p[j] \in seps /\ \A k \in 1..(j - 1) : p[k] \notin seps
         IN  <<SubSeq(p, 1, i - 1)>> \o splitOn(SubSeq(p, i + 1, Len(p)), seps)

RECURSIVE resolveNames(_, _)
\* the names of path.resolve(p) (POSIX): "" and "." are dropped, ".." drops
\* the name before it, and nothing above the root
resolveNames(names, done) ==
    IF names = <<>> THEN done
    ELSE resolveNames(Tail(names),
             IF Head(names) \in {<<>>, <<".">>} THEN done
             ELSE IF Head(names) # <<".", ".">> THEN Append(done, Head(names))
             ELSE IF done = <<>> THEN done
             ELSE SubSeq(done, 1, Len(done) - 1))

RECURSIVE joinNames(_)
joinNames(names) ==
    IF names = <<>> THEN <<>> ELSE Slash \o Head(names) \o joinNames(Tail(names))

\* path.resolve(p) of an absolute path (it does what path.join does, and
\* removes a trailing separator)
resolve(p) ==
    LET names == resolveNames(splitOn(p, {"/"}), <<>>)
    IN  IF names = <<>> THEN Root ELSE joinNames(names)

\* utils.addFilesPath(p)
addFilesPath(p) ==
    LET filesPath == resolve(IF p = Root THEN FilesDir ELSE FilesDir \o Slash \o p)
    IN  IF ~StartsWith(filesPath, resolve(FilesDir)) THEN FilesDir ELSE filesPath

\* mutant: the virtual path is not normalised
removeFilesPathAsIs(p) ==
    IF Len(p) > Len(FilesDir)
    THEN SubSeq(p, Len(FilesDir) + 1, Len(p))
    ELSE IF p = FilesDir THEN Root ELSE <<>>

\* utils.removeFilesPath(p) (undefined, here the empty path, for a path
\* shorter than the files directory)
removeFilesPath(p) ==
    IF Len(p) > Len(FilesDir)
    THEN normalizePath(SubSeq(p, Len(FilesDir) + 1, Len(p)))
    ELSE IF p = FilesDir THEN Root ELSE <<>>

\* fs.stat / fs.access of a real path: only the files directory has content
statReal(rp) ==
    IF rp = FilesDir \/ UnderDir(rp, FilesDir)
    THEN stat(removeFilesPath(rp))
    ELSE "ENOENT"

\* s.lastIndexOf(c), counted from 1 (0 when c is not in s)
lastIndexOf(s, c) ==
    LET I == {i \in 1..Len(s) : s[i] = c}
    IN  IF I = {} THEN 0 ELSE Max(I)

Digits == <<"0", "1", "2", "3", "4", "5", "6", "7", "8", "9">>

RECURSIVE parseInt(_)
\* parseInt(s) of a string of decimal digits
parseInt(s) ==
    IF s = <<>> THEN 0
    ELSE 10 * parseInt(SubSeq(s, 1, Len(s) - 1))
             + (CHOOSE d \in 1..10 : Digits[d] = s[Len(s)]) - 1

RECURSIVE StringOf(_)
\* the decimal string of a number, as string concatenation makes it
StringOf(n) ==
    IF n < 10 THEN <<Digits[n + 1]>>
    ELSE StringOf(n \div 10) \o <<Digits[(n % 10) + 1]>>

\* /-\d+$/.test(filename)
EndsDashDigits(filename) ==
    \E i \in 1..(Len(filename) - 1) :
        /\ filename[i] = "-"
        /\ \A j \in (i + 1)..Len(filename) : \E d \in 1..10 : Digits[d] = filename[j]

\* one turn of getNewPath's loop: filename up to its last "-", then the
\* number after it plus one
Bump(filename) ==
    LET i == lastIndexOf(filename, "-")
    IN  SubSeq(filename, 1, i)
            \o StringOf(parseInt(SubSeq(filename, i + 1, Len(filename))) + 1)

\* mutant: the first candidate is taken without fs.access
FreeNameUntested(dir, filename, ext) == Bump(filename)

RECURSIVE FreeName(_, _, _)
\* getNewPath's loop: the number is raised before the first test, and
\* until fs.access of the candidate fails
FreeName(dir, filename, ext) ==
    LET f == Bump(filename)
    IN  IF statReal(join(dir, f \o ext)) = "ENOENT" THEN f
        ELSE FreeName(dir, f, ext)

\* utils.getNewPath(origPath, callback): the path the callback is given
getNewPath(origPath) ==
    IF statReal(origPath) = "ENOENT" THEN origPath
    ELSE LET name  == basename(origPath)
             dir   == dirname(origPath)
             dot   == lastIndexOf(name, ".")
             split == dot > 0 /\ statReal(origPath) = "file"
             ext   == IF split THEN SubSeq(name, dot, Len(name)) ELSE <<>>
             base  == IF split THEN SubSeq(name, 1, dot - 1) ELSE name
             first == IF EndsDashDigits(base) THEN base ELSE base \o <<"-", "1">>
         IN  join(dir, FreeName(dir, first, ext) \o ext)

-----------------------------------------------------------------------------
(* The query surface *)

\* Math.round(mtime / 1e3)
Seconds(ms) == (ms + 500) \div 1000

Uppers == <<"A", "B", "C", "D", "E", "F", "G", "H", "I", "J", "K", "L", "M",
           "N", "O", "P", "Q", "R", "S", "T", "U", "V", "W", "X", "Y", "Z">>
Lowers == <<"a", "b", "c", "d", "e", "f", "g", "h", "i", "j", "k", "l", "m",
           "n", "o", "p", "q", "r", "s", "t", "u", "v", "w", "x", "y", "z">>

\* string.toLowerCase() (the i flag of a regular expression compares as it
\* does)
toLowerCase(string) ==
    [i \in 1..Len(string) |->
        IF \E k \in 1..Len(Uppers) : Uppers[k] = string[i]
        THEN Lowers[CHOOSE k \in 1..Len(Uppers) : Uppers[k] = string[i]]
        ELSE string[i]]

\* path.relative(from, to) of two absolute paths: ".." for each name of
\* `from` after the common names, then the other names of `to`
relative(from, to) ==
    LET f == resolveNames(splitOn(from, {"/"}), <<>>)
        t == resolveNames(splitOn(to, {"/"}), <<>>)
        same == {k \in 0..Len(f) : k <= Len(t) /\ SubSeq(f, 1, k) = SubSeq(t, 1, k)}
        k == Max(same)
        names == [i \in 1..(Len(f) - k) |-> <<".", ".">>] \o SubSeq(t, k + 1, Len(t))
    IN  IF names = <<>> THEN <<>> ELSE Tail(joinNames(names))

\* entries(files, folders, relativePaths, base): display name -> <<kind,
\* mtime in s, size>>, the three fields the code joins with "|"; a folder
\* overwrites a file of the same name, a folder whose entry is falsy is
\* skipped
entries(files, folders, relativePaths, base) ==
    LET shown == {f \in folders : Truthy(dirs, f)}
        name(x) == IF relativePaths THEN relative(base, x) ELSE basename(x)
    IN  [n \in {name(x) : x \in files \cup shown} |->
            IF \E f \in shown : name(f) = n
            THEN LET f == CHOOSE f \in shown : name(f) = n
                 IN  <<"d", Seconds(dirs[f].mtime), dirs[f].size>>
            ELSE LET f == CHOOSE f \in files : name(f) = n
                     e == dirs[dirname(f)].files[basename(f)]
                 IN  <<"f", Seconds(e.mtime), e.size>>]

\* string.includes(query)
includes(string, query) ==
    \E i \in 1..(Len(string) - Len(query) + 1) :
        SubSeq(string, i, i + Len(query) - 1) = query

\* search(query, p) for a string `query`: null = TRUE stands for the result
\* null, threw = TRUE for a TypeError on an undefined entry
search(query, p) ==
    LET q       == toLowerCase(query)
        scope   == {dir \in DOMAIN dirs : StartsWith(dir, p)}
        folders == {dir \in scope : includes(toLowerCase(dir), q) /\ dir # p}
        files   == UNION {{join(dir, file) :
                             file \in {n \in DOMAIN dirs[dir].files :
                                          includes(toLowerCase(n), q)}} :
                          dir \in scope}
        none    == [n \in {} |-> <<>>]
    IN  IF ~Truthy(dirs, p) \/ query = <<>>
        THEN [threw |-> FALSE, null |-> TRUE, entries |-> none]
        ELSE IF \E dir \in scope : ~Truthy(dirs, dir)
        THEN [threw |-> TRUE, null |-> FALSE, entries |-> none]
        ELSE IF \E f \in files : GetFile(dirs, f) = Undef
        THEN [threw |-> TRUE, null |-> FALSE, entries |-> none]
        ELSE [threw |-> FALSE,
              null |-> files \cup {f \in folders : Truthy(dirs, f)} = {},
              entries |-> entries(files, folders, TRUE, p)]

\* ls(p): defined = FALSE stands for the result `undefined`
ls(p) ==
    IF ~Truthy(dirs, p)
    THEN [defined |-> FALSE, entries |-> <<>>]
    ELSE [defined |-> TRUE,
          entries |->
              entries({join(p, f) : f \in DOMAIN dirs[p].files},
                      {d \in DOMAIN dirs : dirname(d) = p /\ basename(d) # <<>>},
                      FALSE, <<>>)]

-----------------------------------------------------------------------------
(* droppy-remote: the command-line client of the REST API *)

\* the commands executeRemoteCommand switches on
Commands == {"ping", "list", "read", "write", "mkdir", "delete", "move"}

\* how the request of a run settles: a 2xx answer with a JSON body ("ok"), a
\* 2xx answer with an empty body ("empty": data is null), or a rejection
Rejections == {"401", "403", "404", "ECONNREFUSED", "ENOTFOUND", "500"}
Answers    == {"ok", "empty"} \cup Rejections

\* no run of the command: the server's state machine is on its own
NoRun ==
    [pc |-> "off", argv |-> <<>>, content |-> "none", file |-> "none",
     error |-> "none", help |-> FALSE, answer |-> "none", exit |-> Null]

\* a run that ends with `status`
exited(run, status) == [run EXCEPT !.pc = "exited", !.exit = status]

\* printHelp(): prints the usage and calls process.exit() with no code, so the
\* process ends there with status 0 and the caller's next statement never runs
printHelp(run) == exited([run EXCEPT !.help = TRUE], 0)

\* console.error(msg)
errorLine(run, msg) == [run EXCEPT !.error = msg]

\* the statements of the bin before the call of executeRemoteCommand
binMain(run) ==
    IF run.argv = <<>>
    THEN printHelp(run)
    ELSE IF Len(Tail(run.argv)) < 1
    THEN printHelp(errorLine(run, "URL required"))
    ELSE [run EXCEPT !.pc = "execute"]

\* executeRemoteCommand(cmd, args, options) up to the await of its request:
\* the run either waits for the answer or has its exit status
executeRemoteCommand(run) ==
    LET cmd     == Head(run.argv)
        args    == Tail(run.argv)
        request == [run EXCEPT !.pc = "request"]
        usage(msg) == printHelp(errorLine(run, msg))
    IN  IF args[1] = ""
        THEN exited(errorLine(run, "URL required"), 1)
        ELSE CASE cmd = "ping" -> request
               [] cmd \in {"list", "read", "mkdir", "delete"} ->
                      IF Len(args) < 2 THEN usage("path required") ELSE request
               [] cmd = "write" ->
                      IF Len(args) < 2 THEN usage("path required")
                      ELSE IF run.file \notin {"none", ""}
                      THEN IF run.file = "unreadable"
                           THEN exited(errorLine(run, "Error reading file"), 1)
                           ELSE request
                      ELSE IF run.content \notin {"none", ""}
                      THEN request
                      ELSE usage("either --content or --file must be provided")
               [] cmd = "move" ->
                      IF Len(args) < 3
                      THEN usage("source and destination paths required")
                      ELSE request
               [] OTHER -> usage("unknown command")

\* the rest of executeRemoteCommand once the request has settled with
\* `answer`, and the bin's process.exit(result.exitCode). `read` dereferences
\* result.data, which throws into the catch block when the body was empty
settled(run, answer) ==
    LET got == [run EXCEPT !.answer = answer]
    IN  IF answer \in Rejections
        THEN exited(errorLine(got, answer), 1)
        ELSE IF answer = "empty" /\ Head(run.argv) = "read"
        THEN exited(errorLine(got, "TypeError"), 1)
        ELSE exited(got, 0)

-----------------------------------------------------------------------------
(* Initial states and the inputs of the operations *)

PA == <<"/", "a">>
PB == <<"/", "b">>
PAA == <<"/", "a", "/", "a">>
PAB == <<"/", "a", "/", "b">>
PABA == <<"/", "a", "/", "b", "/", "a">>
PBA == <<"/", "b", "/", "a">>

\* the root of the spec's first scenario, scaled: /a/a (1 byte), /a/b/a (2)
SeedDisk ==
    [p \in {Root, PA, PAA, PAB, PABA} |->
        IF p = PAA THEN DiskFile(1)
        ELSE IF p = PABA THEN DiskFile(2)
        ELSE DiskDir]

\* the seed with /a/b unreadable
LockedDisk == [SeedDisk EXCEPT ![PAB] = LockedDir]

\* a root that holds the empty directory /a only
SmallDisk == [p \in {Root, PA} |-> DiskDir]

\* no path function has been called: lastIndex is 0
NoCall == [lastIndex |-> 0, fn |-> "none", arg |-> <<>>, ok |-> TRUE, ret |-> <<>>]

NoMut == [kind |-> "none", path |-> Root, size |-> 0]

\* the share links of the database: two of the directory /a/b, one of the
\* file /a/a, one of the file /a/b/a
SeedLinks ==
    [l \in {"k1", "k2", "k3", "k4"} |->
        [location |-> CASE l = "k1" -> PAB
                        [] l = "k2" -> PAB
                        [] l = "k3" -> PAA
                        [] l = "k4" -> PABA]]

\* the state once the server has called init(config) and updateDir(null):
\* the index is empty and the initial scan waits for fs.lstat
InitFor(disks, patterns, readOnlys) ==
    /\ disk \in disks
    /\ sess \in {[readOnly |-> ro, sent |-> <<>>, todo |-> <<>>] : ro \in readOnlys}
    /\ dirs = [p \in {} |-> Undef]
    /\ todoDirs = <<>>
    /\ initial = TRUE
    /\ watching = TRUE
    /\ timer = Null
    /\ cfg \in {[ignorePatterns |-> ip] : ip \in patterns}
    /\ now = 0
    /\ lookQ = {}
    /\ drainAt = Null
    /\ scanQ = 0
    /\ scans = <<[phase |-> "lstat", snap |-> NoWalk, root |-> Root]>>
    /\ emitted = <<>>
    /\ crashed = FALSE
    /\ res = [seq |-> 0, op |-> "none", diskOk |-> TRUE, err |-> FALSE]
    /\ lastLook = Null
    /\ threw = FALSE
    /\ lastMut = NoMut
    /\ evt = [last |-> "none", scheduled |-> 0, updateall |-> 0,
             external |-> "none", read |-> <<>>]
    /\ util = NoCall
    /\ links = SeedLinks
    /\ cli = NoRun

\* the same with config.readOnly unset
InitWith(disks, patterns) == InitFor(disks, patterns, {FALSE})

\* what a query started now must see at `path`, when the disk step of the
\* operation just taken succeeded and changed the disk
Expect(kind, path, size) ==
    lastMut' = IF res'.diskOk /\ disk' # disk
               THEN [kind |-> kind, path |-> path, size |-> size]
               ELSE NoMut

ExpectMoved(src, dst) ==
    IF stat(src) = "file" THEN Expect("file", dst, disk[src].size)
    ELSE Expect("dir", dst, 0)

Sizes == 1..MaxSize

Mk(paths) ==
    \E p \in paths, fault \in BOOLEAN :
        mk(p, fault) /\ Expect("file", p, 0) /\ UNCHANGED <<cli, links, util, sess>>

Mkdir(paths) ==
    \E p \in paths, fault \in BOOLEAN :
        mkdir(p, fault) /\ Expect("dir", p, 0) /\ UNCHANGED <<cli, links, util, sess>>

Save(paths) ==
    \E p \in paths, n \in Sizes, fault \in BOOLEAN :
        save(p, n, fault) /\ Expect("file", p, n) /\ UNCHANGED <<cli, links, util, sess>>

Del(paths) ==
    \E p \in paths, fault \in BOOLEAN :
        del(p, fault) /\ Expect("gone", p, 0) /\ UNCHANGED <<cli, links, util, sess>>

Move(pairs) ==
    \E sd \in pairs, fault \in BOOLEAN :
        move(sd[1], sd[2], fault) /\ ExpectMoved(sd[1], sd[2]) /\ UNCHANGED <<cli, links, util, sess>>

Clipboard(pairs) ==
    \E sd \in pairs, type \in {"cut", "copy"}, fault \in BOOLEAN :
        clipboard(sd[1], sd[2], type, fault) /\ ExpectMoved(sd[1], sd[2]) /\ UNCHANGED <<cli, links, util, sess>>

-----------------------------------------------------------------------------
(* The request handlers. A handler with one await is one step; a batch     *)
(* handler queues one job per await of its loop and BatchStep runs them.   *)

\* the characters of filenameReservedRegex; "\t" stands for U+0000-U+001F
ReservedChars == {"<", ">", ":", "\"", "/", "\\", "|", "?", "*", "\t"}

\* filenameReservedRegex.test(string) with lastIndex = li: the g flag makes
\* the search start at lastIndex and leaves lastIndex after the match, or at
\* 0 when nothing matches
reservedTest(string, li) ==
    LET M == {j \in (li + 1)..Len(string) : string[j] \in ReservedChars}
    IN  IF li > Len(string) \/ M = {}
        THEN [found |-> FALSE, lastIndex |-> 0]
        ELSE [found |-> TRUE, lastIndex |-> CHOOSE j \in M : \A k \in M : j <= k]

\* windowsReservedNameRegex.test(string): /^(con|prn|aux|nul|com\d|lpt\d)$/i
windowsReserved(string) ==
    LET l == toLowerCase(string)
    IN  \/ /\ Len(string) = 3
           /\ l \in {<<"c", "o", "n">>, <<"p", "r", "n">>, <<"a", "u", "x">>,
                     <<"n", "u", "l">>}
        \/ /\ Len(string) = 4
           /\ SubSeq(l, 1, 3) \in {<<"c", "o", "m">>, <<"l", "p", "t">>}
           /\ \E d \in 1..Len(Digits) : Digits[d] = l[4]

MaxNameLength == 255

\* utils.isValidFilename(string), with filenameReservedRegex.lastIndex = li:
\* the result and the lastIndex it leaves
isValidFilename(string, li) ==
    LET reserved == reservedTest(string, li)
    IN  IF string = <<>> \/ Len(string) > MaxNameLength
        THEN [ok |-> FALSE, lastIndex |-> li]
        ELSE IF reserved.found
        THEN [ok |-> FALSE, lastIndex |-> reserved.lastIndex]
        ELSE [ok |-> ~windowsReserved(string) /\ string \notin {<<".">>, <<".", ".">>},
              lastIndex |-> 0]

RECURSIVE everyName(_, _)
\* names.every(...) of isPathSane: it stops at the first name that fails
everyName(names, li) ==
    IF names = <<>> THEN [ok |-> TRUE, lastIndex |-> li]
    ELSE IF Head(names) \in {<<".">>, <<".", ".">>} THEN [ok |-> FALSE, lastIndex |-> li]
    ELSE IF Head(names) = <<>> THEN everyName(Tail(names), li)
    ELSE LET valid == isValidFilename(Head(names), li)
         IN  IF ~valid.ok THEN valid ELSE everyName(Tail(names), valid.lastIndex)

\* utils.isPathSane(p, false) with filenameReservedRegex.lastIndex = li
isPathSaneAt(p, li) == everyName(splitOn(p, {"/", "\\"}), li)

\* p.split(/[\\/]/gm), as a set
Segments(p) ==
    LET names == splitOn(p, {"/", "\\"})
    IN  {names[i] : i \in 1..Len(names)}

\* utils.isPathSane(p) when lastIndex is 0, as it is as long as no name
\* with a reserved character has been tested
isPathSane(p) == isPathSaneAt(p, 0).ok

\* validatePaths(paths, ...) of the server: every path is sane; it answers
\* "Invalid request" itself when one is not. (The messages that carry the
\* name of a path or the text of an exception are shortened to "Error".)
validatePaths(ps) == \A p \in ps : isPathSane(p)

\* /^\s*$/.test(s) || s === ""
Blank(s) == \A i \in 1..Len(s) : s[i] = " "

\* the handler returns without calling the file tree
Answer(msgs) ==
    /\ Serving
    /\ sess' = [sess EXCEPT !.sent = msgs, !.todo = <<>>]
    /\ UNCHANGED <<cli, links, util, disk, dirs, todoDirs, initial, watching, timer, cfg, now, lookQ,
                   drainAt, scanQ, scans, emitted, crashed, res, lastLook, threw,
                   lastMut, evt>>

\* try { await filetree.op(...) } catch { sendError(...) }; nothing is
\* answered when the process has exited
Caught(msg) ==
    /\ sess' = [sess EXCEPT !.sent = IF res'.err /\ ~crashed' THEN <<msg>> ELSE <<>>]
    /\ UNCHANGED <<cli, links, util>>

\* the destination the clipboard handler gives to filetree.clipboard
PasteTarget(src, dst) ==
    IF stat(dst) # "ENOENT" \/ src = dst
    THEN removeFilesPath(getNewPath(addFilesPath(dst)))
    ELSE dst

\* clipboard.js: the promise of filetree.clipboard is not awaited
clipboardHandler(src, dst, type, fault) ==
    /\ sess.todo = <<>>
    /\ IF sess.readOnly THEN Answer(<<"Files are read-only">>)
       ELSE IF ~validatePaths({src, dst}) THEN Answer(<<"Invalid request">>)
       ELSE IF UnderDir(dst, src) THEN Answer(<<"Can't copy directory into itself">>)
       ELSE /\ clipboard(src, PasteTarget(src, dst), type, fault)
            /\ ExpectMoved(src, PasteTarget(src, dst))
            /\ sess' = [sess EXCEPT !.sent = <<>>]
            /\ UNCHANGED <<cli, links, util>>

\* "update sharelinks to new destination": every link whose location is
\* rSrc gets rDst
Relinked(all, rSrc, rDst) ==
    [l \in DOMAIN all |->
        IF all[l].location = rSrc THEN [all[l] EXCEPT !.location = rDst] ELSE all[l]]

\* a rename handler that rewrites the links before it awaits the move
renameHandlerLinksFirst(src, dst, fault) ==
    /\ sess.todo = <<>>
    /\ IF sess.readOnly THEN Answer(<<"Files are read-only">>)
       ELSE IF ~validatePaths({src, dst})
       THEN Answer(<<"Invalid request", "Invalid rename request">>)
       ELSE IF Blank(dst) \/ src = dst THEN Answer(<<"Invalid rename request">>)
       ELSE /\ move(src, dst, fault)
            /\ ExpectMoved(src, dst)
            /\ sess' = [sess EXCEPT !.sent = IF res'.err /\ ~crashed'
                                               THEN <<"Error">> ELSE <<>>]
            /\ links' = Relinked(links, src, dst)
            /\ UNCHANGED <<cli, util>>

\* the rename handler: the catch block returns before the links are
\* rewritten; nothing more runs when the process has exited
renameHandler(src, dst, fault) ==
    /\ sess.todo = <<>>
    /\ IF sess.readOnly THEN Answer(<<"Files are read-only">>)
       ELSE IF ~validatePaths({src, dst})
       THEN Answer(<<"Invalid request", "Invalid rename request">>)
       ELSE IF Blank(dst) \/ src = dst THEN Answer(<<"Invalid rename request">>)
       ELSE /\ move(src, dst, fault)
            /\ ExpectMoved(src, dst)
            /\ sess' = [sess EXCEPT !.sent = IF res'.err /\ ~crashed'
                                               THEN <<"Error">> ELSE <<>>]
            /\ links' = IF res'.err \/ crashed' THEN links
                         ELSE Relinked(links, src, dst)
            /\ UNCHANGED <<cli, util>>

\* mutant: the saveFile handler without the test of config.readOnly
saveFileHandlerUnchecked(to, size, fault) ==
    /\ sess.todo = <<>>
    /\ IF ~validatePaths({to}) THEN Answer(<<"Invalid request">>)
       ELSE /\ save(to, size, fault)
            /\ Expect("file", to, size)
            /\ Caught("Error")

\* the saveFile handler
saveFileHandler(to, size, fault) ==
    /\ sess.todo = <<>>
    /\ IF sess.readOnly THEN Answer(<<"Files are read-only">>)
       ELSE IF ~validatePaths({to}) THEN Answer(<<"Invalid request">>)
       ELSE /\ save(to, size, fault)
            /\ Expect("file", to, size)
            /\ Caught("Error")

\* the createFile handler
createFileHandler(file, fault) ==
    /\ sess.todo = <<>>
    /\ IF sess.readOnly THEN Answer(<<"Files are read-only">>)
       ELSE IF ~validatePaths({file}) THEN Answer(<<"Invalid request">>)
       ELSE /\ mk(file, fault)
            /\ Expect("file", file, 0)
            /\ Caught("Error")

\* the handler that deletes one path
deleteHandler(file, fault) ==
    /\ sess.todo = <<>>
    /\ IF sess.readOnly THEN Answer(<<"Files are read-only">>)
       ELSE IF ~validatePaths({file}) THEN Answer(<<"Invalid request">>)
       ELSE /\ del(file, fault)
            /\ Expect("gone", file, 0)
            /\ Caught("Error")

\* a batch handler enters its loop
Queue(jobs) ==
    /\ Serving
    /\ sess' = [sess EXCEPT !.sent = <<>>, !.todo = jobs]
    /\ UNCHANGED <<cli, links, util, disk, dirs, todoDirs, initial, watching, timer, cfg, now, lookQ,
                   drainAt, scanQ, scans, emitted, crashed, res, lastLook, threw,
                   lastMut, evt>>

Job(op, path, item) == [op |-> op, path |-> path, item |-> item]

\* the createFolders handler up to its loop
createFoldersHandler(folders) ==
    /\ sess.todo = <<>>
    /\ IF sess.readOnly THEN Answer(<<"Files are read-only">>)
       ELSE IF ~validatePaths({folders[i] : i \in 1..Len(folders)})
       THEN Answer(<<"Invalid request">>)
       ELSE Queue([i \in 1..Len(folders) |->
                      Job("mkdir", addFilesPath(folders[i]), i)])

\* the createFiles handler up to its loop: two awaits for each file
createFilesHandler(files) ==
    /\ sess.todo = <<>>
    /\ IF sess.readOnly THEN Answer(<<"Files are read-only">>)
       ELSE IF ~validatePaths({files[i] : i \in 1..Len(files)})
       THEN Answer(<<"Invalid request">>)
       ELSE Queue([k \in 1..(2 * Len(files)) |->
                      IF k % 2 = 1
                      THEN Job("mkdir", addFilesPath(dirname(files[(k + 1) \div 2])),
                               (k + 1) \div 2)
                      ELSE Job("mk", addFilesPath(files[k \div 2]), k \div 2)])

\* the handler that deletes a list of paths, up to its loop; isArray = the
\* payload is an array (of strings)
deleteFilesHandler(isArray, files) ==
    /\ sess.todo = <<>>
    /\ IF ~isArray THEN Answer(<<"Invalid data">>)
       ELSE IF sess.readOnly THEN Answer(<<"Files are read-only">>)
       ELSE Queue([i \in 1..Len(files) |-> Job("del", files[i], i)])

RECURSIVE OtherItems(_, _)
\* the jobs left when the catch block ends the turn of item `item`
OtherItems(jobs, item) ==
    IF jobs = <<>> THEN <<>>
    ELSE IF Head(jobs).item = item THEN OtherItems(Tail(jobs), item)
    ELSE jobs

\* mutant: the catch block returns from the handler
LoopedStops(job) ==
    /\ sess' = IF crashed' \/ res'.err
               THEN [sess EXCEPT !.sent = IF crashed' THEN @ ELSE Append(@, "Error"),
                                 !.todo = <<>>]
               ELSE [sess EXCEPT !.todo = Tail(@)]
    /\ UNCHANGED <<cli, links, util>>

\* after the await of a job: the catch block answers and the loop goes on
\* with the next item, or the loop goes on with the next await
Looped(job) ==
    /\ sess' = IF crashed' THEN [sess EXCEPT !.todo = <<>>]
               ELSE IF res'.err
               THEN [sess EXCEPT !.sent = Append(@, "Error"),
                                 !.todo = OtherItems(Tail(@), job.item)]
               ELSE [sess EXCEPT !.todo = Tail(@)]
    /\ UNCHANGED <<cli, links, util>>

\* one await of the loop of a batch handler
BatchStep ==
    /\ sess.todo # <<>>
    /\ LET job == Head(sess.todo)
       IN  \E fault \in BOOLEAN :
             CASE job.op = "mkdir" ->
                    mkdir(job.path, fault) /\ Expect("dir", job.path, 0) /\ Looped(job)
               [] job.op = "mk" ->
                    mk(job.path, fault) /\ Expect("file", job.path, 0) /\ Looped(job)
               [] job.op = "del" ->
                    IF ~validatePaths({job.path})
                    THEN Answer(sess.sent \o <<"Invalid request", "No permission to delete file">>)
                    ELSE del(job.path, fault) /\ Expect("gone", job.path, 0)
                         /\ Looped(job)

\* another process rewrites a file under the root
ExternalWrite(paths) ==
    /\ Serving
    /\ \E p \in paths, n \in Sizes :
          /\ IsDiskFile(p)
          /\ disk[p].size # n
          /\ disk' = DiskPut(p, DiskFile(n))
    /\ lastMut' = NoMut
    /\ UNCHANGED <<cli, links, util, sess, evt, dirs, todoDirs, initial, watching, timer, cfg, now, lookQ,
                   drainAt, scanQ, scans, emitted, crashed, res, lastLook,
                   threw>>

\* another process removes a directory and what is in it
ExternalRmdir(paths) ==
    /\ Serving
    /\ \E p \in paths :
          /\ IsDiskDir(p)
          /\ disk' = DiskRemove({p} \cup DiskUnder(p))
    /\ lastMut' = NoMut
    /\ UNCHANGED <<cli, links, util, sess, evt, dirs, todoDirs, initial, watching, timer, cfg, now, lookQ,
                   drainAt, scanQ, scans, emitted, crashed, res, lastLook,
                   threw>>

-----------------------------------------------------------------------------
(* Spec: the mutation engine and the update bus, one client, no watcher *)

TreeLimit == 100

Init == InitWith({SeedDisk}, {{}})

Next ==
    \/ ScanWalk
    \/ Mk({PABA})
    \/ Mkdir({PAB})
    \/ Save({PAA})
    \/ Del({PA, PAA})
    \/ Move({<<PAB, PB>>, <<PAA, PB>>})
    \/ Clipboard({<<PAB, PB>>, <<PAA, PB>>})
    \/ Tick({DEBOUNCE_WAIT}, TreeLimit)
    \/ Drain

Spec == Init /\ [][Next]_vars

\* the ignore patterns are configured: any node named "b" is ignored
(* SpecSlow: a recursive copy that takes any time. cpdir calls lookAway and *)
(* awaits utils.copyDir; the timers, the watcher and the rescans go on     *)
(* until the copy settles and cpdir patches the index. sess.todo holds the *)
(* call that is awaited.                                                   *)

CpdirBegin(pairs) ==
    \E sd \in pairs :
        /\ MayMutate
        /\ sess.todo = <<>>
        /\ lookAway
        /\ sess' = [sess EXCEPT !.todo = <<Job("cpdir", sd[1], sd[2])>>]
        /\ UNCHANGED <<disk, dirs, todoDirs, drainAt, crashed, res, threw, lastMut,
                       util, links, cli>>
        /\ MutFrame

CpdirEnd ==
    /\ ~crashed
    /\ sess.todo # <<>>
    /\ \E fault \in BOOLEAN :
          /\ cpdirCopied(Head(sess.todo).path, Head(sess.todo).item, fault)
          /\ Expect("dir", Head(sess.todo).item, 0)
    /\ sess' = [sess EXCEPT !.todo = <<>>]
    /\ UNCHANGED <<watching, timer, lookQ, lastLook, util, links, cli>>
    /\ MutFrame

InitSlow == InitWith({SeedDisk}, {{}})

NextSlow ==
    \/ ScanWalk
    \/ CpdirBegin({<<PAB, PB>>})
    \/ CpdirEnd
    \/ TimerFire
    \/ WatchEvent
    \/ ScanStart
    \/ ScanFinish
    \/ Drain
    \/ Tick({}, MaxTime)

SpecSlow == InitSlow /\ [][NextSlow]_vars

\* SpecBus: the same client, with time that goes on to every pending
\* deadline; the runtime runs a timer that is due, and time does not stop
NextBus == Next \/ Tick({}, MaxTime)

SpecBus ==
    /\ Init
    /\ [][NextBus]_vars
    /\ WF_vars(Drain)
    /\ WF_vars(Tick({}, MaxTime))

InitIgnore == InitWith({SeedDisk}, {{NameB}})

SpecIgnore == InitIgnore /\ [][Next]_vars

-----------------------------------------------------------------------------
(* SpecWatch: the watcher, the rescans and the suppression window, with a  *)
(* client that saves /a/a and another process that rewrites it. Time moves *)
(* from one timer deadline to the next.                                    *)

InitWatch == InitWith({SeedDisk}, {{}})

NextWatch ==
    \/ ScanWalk
    \/ WatchEvent
    \/ ScanStart
    \/ ScanFinish
    \/ TimerFire
    \/ Drain
    \/ Tick({}, MaxTime)
    \/ ExternalWrite({PAA})
    \/ Save({PAA})

SpecWatch == InitWatch /\ [][NextWatch]_vars

(* SpecTimer: lookAway and its timer, with mutations at any multiple of    *)
(* half the delay and at the deadlines; no watcher event arrives.          *)

InitTimer == InitWith({SeedDisk}, {{}})

NextTimer ==
    \/ ScanWalk
    \/ TimerFire
    \/ Drain
    \/ Tick({WATCHER_DELAY \div 2}, MaxTime)
    \/ Save({PAA})
    \/ Del({PAA})

SpecTimer == InitTimer /\ [][NextTimer]_vars

(* SpecMake: a client that creates the directories /b and /a/b and a file *)
(* in each, on a root that holds /a only.                                  *)

InitMake == InitWith({SmallDisk}, {{}})

NextMake ==
    \/ ScanWalk
    \/ Mkdir({PB, PAB})
    \/ Mk({PBA, PABA})
    \/ Tick({}, MaxTime)
    \/ Drain

SpecMake == InitMake /\ [][NextMake]_vars

(* SpecScan: watcher events in bursts, full and subtree rescans that      *)
(* overlap, a directory removed by another process, and a root with an     *)
(* unreadable directory.                                                   *)

InitScan == InitWith({SeedDisk, LockedDisk}, {{}})

NextScan ==
    \/ ScanWalk
    \/ WatchEvents(MaxBurst)
    \/ ScanStart
    \/ updateDir({PA}, MaxBurst)
    \/ ScanFinish
    \/ ExternalRmdir({PAB})
    \/ Drain
    \/ Tick({}, MaxTime)

SpecScan == InitScan /\ [][NextScan]_vars

(* SpecPaste: pastes in a root that holds files and a directory whose     *)
(* names have numeric suffixes and extensions.                             *)

\* the files /a and /a.b and the directory /d.e, which are pasted
PasteSources == {Root \o <<"a">>, Root \o <<"a", ".", "b">>, Root \o <<"d", ".", "e">>}

PastePaths ==
    PasteSources \cup {Root \o <<"a", "-", "0">>, Root \o <<"a", "-", "1">>,
                       Root \o <<"a", "-", "1", ".", "b">>}

\* the sources are there, any of the other names may be
PasteDisks ==
    {[p \in {Root} \cup S |->
         IF p = Root \/ p = Root \o <<"d", ".", "e">> THEN DiskDir ELSE DiskFile(1)] :
       S \in {T \in SUBSET PastePaths : PasteSources \subseteq T}}

\* a source onto itself, and the file "/a" onto any of the names
PastePairs ==
    {<<p, p>> : p \in PasteSources} \cup {<<Root \o <<"a">>, p>> : p \in PastePaths}

ClipboardHandler(pairs) ==
    \E sd \in pairs, type \in {"cut", "copy"}, fault \in BOOLEAN :
        clipboardHandler(sd[1], sd[2], type, fault)

InitPaste == InitWith(PasteDisks, {{}})

NextPaste ==
    \/ ScanWalk
    \/ ClipboardHandler(PastePairs)
    \/ Tick({DEBOUNCE_WAIT}, TreeLimit)
    \/ Drain

SpecPaste == InitPaste /\ [][NextPaste]_vars

(* SpecHandlers: one client sending requests of every kind, with           *)
(* config.readOnly set or not; some name a path that is not sane ("/.."),  *)
(* a blank destination, or a destination inside the source.                *)

PDots == <<"/", ".", ".">>
PABB == <<"/", "a", "/", "b", "/", "b">>

RenamePairs ==
    {<<PAB, PB>>, <<PAB, PAB>>, <<PAB, PABB>>, <<PAB, <<" ">>>>, <<PAB, PDots>>}
PastePairsIn == {<<PAB, PB>>, <<PAB, PABB>>, <<PDots, PB>>}
FolderBatches == {<<PA, PB>>, <<PDots, PB>>}
FileBatches == {<<PAA, PBA>>, <<PDots, PBA>>}
DeleteBatches == {<<PAA, PABA>>, <<PDots, PAA>>}

InitHandlers == InitFor({SeedDisk}, {{}}, BOOLEAN)

NextHandlers ==
    \/ ScanWalk
    \/ ClipboardHandler(PastePairsIn)
    \/ \E sd \in RenamePairs, fault \in BOOLEAN : renameHandler(sd[1], sd[2], fault)
    \/ \E p \in {PAA, PDots}, n \in Sizes, fault \in BOOLEAN : saveFileHandler(p, n, fault)
    \/ \E p \in {PB, PDots}, fault \in BOOLEAN : createFileHandler(p, fault)
    \/ \E p \in {PAA, PDots}, fault \in BOOLEAN : deleteHandler(p, fault)
    \/ \E fs \in FolderBatches : createFoldersHandler(fs)
    \/ \E fs \in FileBatches : createFilesHandler(fs)
    \/ \E isArray \in BOOLEAN, fs \in DeleteBatches : deleteFilesHandler(isArray, fs)
    \/ BatchStep
    \/ Tick({DEBOUNCE_WAIT}, TreeLimit)
    \/ Drain

SpecHandlers == InitHandlers /\ [][NextHandlers]_vars

(* SpecOverlap: watcher events in a burst, each with its own full rescan, *)
(* while another process removes the directory /a/b.                       *)

InitOverlap == InitWith({SeedDisk}, {{}})

NextOverlap ==
    \/ ScanWalk
    \/ WatchEvents(MaxBurst)
    \/ ScanStart
    \/ ScanFinish
    \/ ExternalRmdir({PAB})
    \/ Drain
    \/ Tick({}, MaxTime)

SpecOverlap == InitOverlap /\ [][NextOverlap]_vars

(* SpecRace: two clients paste /a/b/a onto the existing /a/a at about the *)
(* same time. A request that has passed the checks of the handler resolves *)
(* its destination (fs.stat, getNewPath) and only then calls               *)
(* filetree.clipboard, which runs after further awaits: sess.todo holds    *)
(* the pastes whose destination is resolved and whose copy has not run.    *)

\* clipboard.js up to the call of filetree.clipboard, for a request that is
\* neither refused nor invalid
PasteBegin(pairs) ==
    \E sd \in pairs, type \in {"cut", "copy"} :
        /\ Serving
        /\ res.seq + Len(sess.todo) < MaxOps
        /\ ~sess.readOnly
        /\ validatePaths({sd[1], sd[2]})
        /\ ~UnderDir(sd[2], sd[1])
        /\ sess' = [sess EXCEPT !.sent = <<>>,
                                !.todo = Append(@, Job(type, sd[1],
                                                       PasteTarget(sd[1], sd[2])))]
        /\ UNCHANGED <<cli, links, util, disk, dirs, todoDirs, initial, watching, timer,
                       cfg, now, lookQ, drainAt, scanQ, scans, emitted, crashed,
                       res, lastLook, threw, lastMut, evt>>

\* filetree.clipboard(src, newDst, type) of one of the pending pastes
PasteEnd ==
    \E i \in 1..Len(sess.todo), fault \in BOOLEAN :
        LET job == sess.todo[i]
        IN  /\ clipboard(job.path, job.item, job.op, fault)
            /\ ExpectMoved(job.path, job.item)
            /\ sess' = [sess EXCEPT !.todo = DropAt(@, i)]
            /\ UNCHANGED <<cli, links, util>>

InitRace == InitWith({SeedDisk}, {{}})

NextRace ==
    \/ ScanWalk
    \/ PasteBegin({<<PABA, PAA>>, <<PAA, PAA>>})
    \/ PasteEnd
    \/ Tick({DEBOUNCE_WAIT}, TreeLimit)
    \/ Drain

SpecRace == InitRace /\ [][NextRace]_vars

-----------------------------------------------------------------------------
(* SpecRemote: runs of the droppy-remote command *)

\* the command lines tried: no positional argument, a command alone, a
\* command with a URL (possibly the empty string) and up to two paths
CommandLines ==
    {<<>>} \cup
    UNION {{<<c>>, <<c, u>>, <<c, u, "/f">>, <<c, u, "/f", "/g">>} :
           c \in Commands \cup {"bogus"}, u \in {"", "http://host"}}

\* the runs tried: --content absent, empty or a text; --file absent, a
\* readable local file or one that cannot be read
Runs ==
    {[NoRun EXCEPT !.pc = "bin", !.argv = a, !.content = c, !.file = f] :
        a \in CommandLines,
        c \in {"none", "", "Hello"},
        f \in {"none", "./local.txt", "unreadable"}}

\* the server is not part of a run
RemoteFrame ==
    UNCHANGED <<disk, dirs, todoDirs, initial, watching, timer, cfg, now,
                lookQ, drainAt, scanQ, scans, emitted, crashed, res,
                lastLook, threw, lastMut, sess, evt, util, links>>

BinMain ==
    /\ cli.pc = "bin"
    /\ cli' = binMain(cli)
    /\ RemoteFrame

Execute ==
    /\ cli.pc = "execute"
    /\ cli' = executeRemoteCommand(cli)
    /\ RemoteFrame

Settle ==
    /\ cli.pc = "request"
    /\ \E answer \in Answers : cli' = settled(cli, answer)
    /\ RemoteFrame

InitRemote ==
    /\ disk = SeedDisk
    /\ sess = [readOnly |-> FALSE, sent |-> <<>>, todo |-> <<>>]
    /\ dirs = [p \in {} |-> Undef]
    /\ todoDirs = <<>> /\ initial = TRUE /\ watching = TRUE /\ timer = Null
    /\ cfg = [ignorePatterns |-> {}] /\ now = 0 /\ lookQ = {} /\ drainAt = Null
    /\ scanQ = 0 /\ emitted = <<>> /\ crashed = FALSE
    /\ scans = <<[phase |-> "lstat", snap |-> NoWalk, root |-> Root]>>
    /\ res = [seq |-> 0, op |-> "none", diskOk |-> TRUE, err |-> FALSE]
    /\ lastLook = Null /\ threw = FALSE /\ lastMut = NoMut
    /\ evt = [last |-> "none", scheduled |-> 0, updateall |-> 0,
             external |-> "none", read |-> <<>>]
    /\ util = NoCall
    /\ links = SeedLinks
    /\ cli \in Runs

NextRemote == BinMain \/ Execute \/ Settle

SpecRemote == InitRemote /\ [][NextRemote]_vars

(* SpecCopy: a client that copies the directory /a to /b and the file    *)
(* /a/a to /a/b/b, and saves, creates or deletes below the source or below *)
(* the copy.                                                               *)

PBB == <<"/", "b", "/", "b">>
PBBB == <<"/", "b", "/", "b", "/", "b">>

\* cp(src, dst) of a file
Cp(pairs) ==
    \E sd \in pairs, fault \in BOOLEAN :
        /\ MayMutate
        /\ MutFrame
        /\ stat(sd[1]) = "file"
        /\ cp(sd[1], sd[2], fault)
        /\ Expect("file", sd[2], disk[sd[1]].size)
        /\ UNCHANGED <<cli, links, util, sess>>

\* cpdir(src, dst) of a directory
Cpdir(pairs) ==
    \E sd \in pairs, fault \in BOOLEAN :
        /\ MayMutate
        /\ MutFrame
        /\ stat(sd[1]) = "dir"
        /\ cpdir(sd[1], sd[2], fault)
        /\ Expect("dir", sd[2], 0)
        /\ UNCHANGED <<cli, links, util, sess>>

InitCopy == InitWith({SeedDisk}, {{}})

NextCopy ==
    \/ ScanWalk
    \/ Cpdir({<<PA, PB>>})
    \/ Cp({<<PAA, PABB>>})
    \/ Save({PAA, PABB, PBA})
    \/ Mk({PABB, PBBB})
    \/ Del({PAB, PBB})
    \/ Tick({DEBOUNCE_WAIT}, TreeLimit)
    \/ Drain

SpecCopy == InitCopy /\ [][NextCopy]_vars

(* SpecQuiet: a client that saves /a/a, then another process rewrites the *)
(* file once and the filesystem stays quiet; chokidar reports the change   *)
(* to the handler. The runtime runs every timer and every callback that is *)
(* due, and time goes on.                                                  *)

\* a save of the client, before the other process has changed anything
SaveBefore ==
    /\ evt.external = "none"
    /\ Save({PAA})

\* another process rewrites a file under the root; chokidar will report it
ExternalChange(paths) ==
    /\ Serving
    /\ evt.external = "none"
    /\ \E p \in paths, n \in Sizes :
          /\ IsDiskFile(p)
          /\ disk[p].size # n
          /\ disk' = DiskPut(p, DiskFile(n))
    /\ evt' = [evt EXCEPT !.external = "pending"]
    /\ lastMut' = NoMut
    /\ UNCHANGED <<cli, links, util, sess, dirs, todoDirs, initial, watching, timer, cfg,
                   now, lookQ, drainAt, scanQ, scans, emitted, crashed, res,
                   lastLook, threw>>

\* chokidar's "all" handler for the change of the other process:
\* if (watching) this.updateAll()
Report ==
    /\ ~crashed
    /\ evt.external = "pending"
    /\ IF watching
       THEN /\ scanQ' = scanQ + 1
            /\ evt' = [evt EXCEPT !.last = "accepted", !.scheduled = @ + 1,
                                  !.external = "reported"]
       ELSE /\ UNCHANGED scanQ
            /\ evt' = [evt EXCEPT !.last = "dropped", !.external = "reported"]
    /\ UNCHANGED <<cli, links, util, sess, lastMut, disk, dirs, todoDirs, initial, watching,
                   timer, cfg, now, lookQ, drainAt, scans, emitted, crashed, res,
                   lastLook, threw>>

InitQuiet == InitWith({SeedDisk}, {{}})

NextQuiet ==
    \/ ScanWalk
    \/ SaveBefore
    \/ ExternalChange({PAA, PABA})
    \/ Report
    \/ ScanStart
    \/ ScanFinish
    \/ TimerFire
    \/ Drain
    \/ Tick({}, MaxTime)

\* a rescan in flight goes on: its lstat and its traversal settle
ScanGoesOn ==
    \/ []<>(crashed \/ scans = <<>>)
    \/ []<><<ScanWalk \/ ScanFinish>>_vars

SpecQuiet ==
    /\ InitQuiet
    /\ [][NextQuiet]_vars
    /\ WF_vars(Report) /\ WF_vars(ScanStart) /\ ScanGoesOn
    /\ WF_vars(TimerFire) /\ WF_vars(Drain) /\ WF_vars(Tick({}, MaxTime))

(* SpecRename: a client that renames the directory /a/b, the file /a/a   *)
(* and what it has made of them, and deletes /a/a; the database holds share *)
(* links of /a/b, /a/a and /a/b/a.                                          *)

LinkPairs == {<<PAB, PB>>, <<PAA, PB>>, <<PB, PAB>>, <<PAB, PAB>>}

RenameHandler(pairs) ==
    \E sd \in pairs, fault \in BOOLEAN : renameHandler(sd[1], sd[2], fault)

DeleteHandler(paths) ==
    \E p \in paths, fault \in BOOLEAN : deleteHandler(p, fault)

InitRename == InitWith({SeedDisk}, {{}})

NextRename ==
    \/ ScanWalk
    \/ RenameHandler(LinkPairs)
    \/ DeleteHandler({PAA})
    \/ Tick({DEBOUNCE_WAIT}, TreeLimit)
    \/ Drain

SpecRename == InitRename /\ [][NextRename]_vars

(* SpecDel: a client that deletes the directory /a, the file /a/a or the   *)
(* directory /a/b and saves /a/a, in a root where /a has the sibling /ab.  *)

PAb == <<"/", "a", "b">>
PAbA == <<"/", "a", "b", "/", "a">>

SiblingDisk ==
    [p \in DOMAIN SeedDisk \cup {PAb, PAbA} |->
        IF p = PAb THEN DiskDir
        ELSE IF p = PAbA THEN DiskFile(1)
        ELSE SeedDisk[p]]

InitDel == InitWith({SiblingDisk}, {{}})

NextDel ==
    \/ ScanWalk
    \/ Save({PAA})
    \/ Del({PA, PAA, PAB})
    \/ Tick({DEBOUNCE_WAIT}, TreeLimit)
    \/ Drain

SpecDel == InitDel /\ [][NextDel]_vars

(* SpecPaths: the path functions of utils.js called in any order on        *)
(* virtual paths that are relative, doubled, end in a separator, climb     *)
(* with "..", or hold reserved characters, device names and long names.    *)

LongName(n) == [i \in 1..n |-> "a"]

PathInputs ==
    {<<"/">>,
     <<"/", "a">>,
     <<"/", "a", "/", "b">>,
     <<"a">>,
     <<"/", "a", "/">>,
     <<"/", "/", "a">>,
     <<"/", "a", "\\", "b">>,
     <<>>,
     <<"/", ".", ".", "/", "f", "x">>,
     <<"/", ".", ".">>,
     <<"/", "a", "/", ".", ".", "/", "b">>,
     <<"/", ".">>,
     <<"/", "a", "<">>,
     <<"/", "<">>,
     <<"/", "b", "/", "<">>,
     <<"/", "c", "o", "n">>,
     <<"/", "C", "O", "N">>,
     <<"/", "c", "o", "m", "1">>,
     <<"/", "l", "p", "t", "9">>,
     <<"/", "c", "o", "m">>,
     <<"/", "c", "o", "n", "a">>,
     <<"/", "a", "/", "n", "u", "l">>,
     <<"/", "a", "|", "b">>,
     <<"/", "\t">>,
     Slash \o LongName(MaxNameLength), Slash \o LongName(MaxNameLength + 1)}

\* the real paths removeFilesPath is called with
RealInputs == {addFilesPath(p) : p \in PathInputs} \cup {Root}

UtilFrame ==
    UNCHANGED <<disk, dirs, todoDirs, initial, watching, timer, cfg, now, lookQ,
                drainAt, scanQ, scans, emitted, crashed, res, lastLook, threw,
                lastMut, sess, evt, links, cli>>

IsPathSane(paths) ==
    \E p \in paths :
        /\ util' = [lastIndex |-> isPathSaneAt(p, util.lastIndex).lastIndex,
                    fn |-> "isPathSane", arg |-> p,
                    ok |-> isPathSaneAt(p, util.lastIndex).ok, ret |-> <<>>]
        /\ UtilFrame

AddFilesPath(paths) ==
    \E p \in paths :
        /\ util' = [util EXCEPT !.fn = "addFilesPath", !.arg = p, !.ok = TRUE,
                                !.ret = addFilesPath(p)]
        /\ UtilFrame

RemoveFilesPath(paths) ==
    \E p \in paths :
        /\ util' = [util EXCEPT !.fn = "removeFilesPath", !.arg = p, !.ok = TRUE,
                                !.ret = removeFilesPath(p)]
        /\ UtilFrame

InitPaths == InitWith({SmallDisk}, {{}})

NextPaths ==
    \/ IsPathSane(PathInputs)
    \/ AddFilesPath(PathInputs)
    \/ RemoveFilesPath(RealInputs)

SpecPaths == InitPaths /\ [][NextPaths]_vars

(* SpecSizes: updateDirSizes called again and again on an index whose     *)
(* size fields hold any value (a patch has changed files or keys and the   *)
(* sizes have not been recomputed yet).                                    *)

\* the index of the seed, with or without /b, and any size in each entry
DriftedIndexes ==
    LET files(p) == IF p = PAB THEN [n \in {NameA} |-> FileEntry(MaxSize, 0)]
                    ELSE IF p = PB THEN NoFiles
                    ELSE [n \in {NameA} |-> FileEntry(1, 0)]
    IN  UNION {{[p \in K |-> DirEntry(files(p), size[p], 0)] :
                   size \in [K -> 0..MaxSize]} :
               K \in {{Root, PA, PAB}, {Root, PA, PAB, PB}}}

InitSizes ==
    /\ disk = SeedDisk
    /\ sess = [readOnly |-> FALSE, sent |-> <<>>, todo |-> <<>>]
    /\ dirs \in DriftedIndexes
    /\ todoDirs = <<>> /\ initial = FALSE /\ watching = TRUE /\ timer = Null
    /\ cfg = [ignorePatterns |-> {}] /\ now = 0 /\ lookQ = {} /\ drainAt = Null
    /\ scanQ = 0 /\ scans = <<>> /\ emitted = <<>> /\ crashed = FALSE
    /\ res = [seq |-> 0, op |-> "none", diskOk |-> TRUE, err |-> FALSE]
    /\ lastLook = Null /\ threw = FALSE /\ lastMut = NoMut
    /\ evt = [last |-> "none", scheduled |-> 0, updateall |-> 0,
             external |-> "none", read |-> <<>>]
    /\ util = NoCall
    /\ links = SeedLinks
    /\ cli = NoRun

\* a call of updateDirSizes(); util.arg keeps the index it was called on
UpdateDirSizes ==
    /\ ~UpdateThrows(dirs)
    /\ dirs' = updateDirSizes(dirs)
    /\ util' = [util EXCEPT !.fn = "updateDirSizes", !.arg = dirs]
    /\ UNCHANGED <<disk, todoDirs, initial, watching, timer, cfg, now, lookQ,
                   drainAt, scanQ, scans, emitted, crashed, res, lastLook, threw,
                   lastMut, sess, evt, links, cli>>

NextSizes == UpdateDirSizes

SpecSizes == InitSizes /\ [][NextSizes]_vars

-----------------------------------------------------------------------------
(* Properties *)

\* no operation or rescan is under way and the update bus has drained
Quiet ==
    /\ ~crashed /\ ~initial
    /\ scans = <<>> /\ scanQ = 0
    /\ todoDirs = <<>> /\ drainAt = Null

Children(p) == {c \in DOMAIN dirs : c # p /\ dirname(c) = p}

OwnSize(p) == SumSizes(dirs[p].files, DOMAIN dirs[p].files)

RECURSIVE SumDirSizes(_)
SumDirSizes(S) ==
    IF S = {} THEN 0
    ELSE LET c == CHOOSE x \in S : TRUE
         IN  dirs[c].size + SumDirSizes(S \ {c})

SizeEq(p) == dirs[p].size = OwnSize(p) + SumDirSizes(Children(p))

\* C1: once every mutation and rescan has completed and the bus has drained,
\* every directory of the index, the root included, has
\* size = sizes of its own files + sizes of its immediate child directories.
C1_SizeRollupEveryDir ==
    Quiet =>
        IF \E p \in DOMAIN dirs : ~Truthy(dirs, p) THEN FALSE
        ELSE \A p \in DOMAIN dirs : SizeEq(p)

\* C2: when the disk step of a mutation fails, the operation reports the
\* error and leaves the index exactly as it was.
C2_FailedDiskStepLeavesIndex ==
    [][(res'.seq # res.seq /\ ~res'.diskOk) => (res'.err /\ dirs' = dirs)]_vars

\* C3: after completed mutations and a drain, the parent of every key of the
\* index other than "/" is a key too.
C3_ParentIsKey ==
    Quiet => \A p \in DOMAIN dirs \ {Root} : dirname(p) \in DOMAIN dirs

\* C4: after any sequence of mutations, successful or failed, no path is both
\* a file entry and a key of the index.
C4_FileOrDirNotBoth ==
    ~crashed =>
        \A p \in DOMAIN dirs :
            IF Truthy(dirs, p)
            THEN \A n \in DOMAIN dirs[p].files : join(p, n) \notin DOMAIN dirs
            ELSE TRUE

\* C5: once the initial scan has completed, the index has an entry for "/"
\* in every state a query can observe: ls("/") is never undefined.
C5_RootAlwaysIndexed == Serving => ls(Root).defined

\* C6: after completed mutations and a drain, no key and no file entry of
\* the index has a path that an ignore pattern matches.
C6_NoIgnoredEntry ==
    Quiet =>
        \A p \in DOMAIN dirs :
            /\ ~Ignored(p)
            /\ IF Truthy(dirs, p)
               THEN \A n \in DOMAIN dirs[p].files : ~Ignored(join(p, n))
               ELSE TRUE

\* the listing of the parent of p names p
Listed(p) ==
    LET l == ls(dirname(p))
    IN  IF l.defined THEN basename(p) \in DOMAIN l.entries ELSE FALSE

\* a query started now sees what the mutation m made of its path
Visible(m) ==
    CASE m.kind = "none" -> TRUE
      [] m.kind = "gone" -> ~Listed(m.path)
      [] m.kind = "dir" ->
            IF Listed(m.path)
            THEN ls(dirname(m.path)).entries[basename(m.path)][1] = "d"
            ELSE FALSE
      [] m.kind = "file" ->
            IF Listed(m.path)
            THEN LET e == ls(dirname(m.path)).entries[basename(m.path)]
                 IN  e[1] = "f" /\ e[3] = m.size
            ELSE FALSE

\* C7: a mutation whose disk step has returned successfully is visible to
\* every query that starts afterwards, whatever rescan is in flight.
C7_MutationVisible == Serving => Visible(lastMut)

\* the suppression window, entered from a quiescent state
Suppressed == ~crashed /\ ~watching /\ scanQ = 0 /\ scans = <<>>

\* C8: while watching is off and no rescan was scheduled or running, no step
\* schedules or starts a rescan and only a mutation changes the index (an
\* externally modified file keeps its recorded size); a rescan is scheduled
\* only by an event that arrives while watching is on, so an event of the
\* window is dropped, not queued.
C8_SuppressedNoRescan ==
    [][/\ Suppressed =>
            /\ scanQ' = 0 /\ scans' = <<>>
            /\ evt'.scheduled = evt.scheduled
            /\ (res'.seq = res.seq => dirs' = dirs)
       /\ evt'.scheduled # evt.scheduled =>
            /\ watching
            /\ evt'.last = "accepted"
            /\ scanQ' = scanQ + 1]_vars

\* C8 witness: inside the window of a save, with no rescan scheduled, a
\* watcher event has been dropped and /a/a, rewritten by another process,
\* still has the size the save recorded
C8_Witness ==
    /\ Suppressed
    /\ evt.last = "dropped" /\ evt.scheduled = 0
    /\ res.op = "save" /\ res.diskOk
    /\ now < lastLook + WATCHER_DELAY
    /\ Truthy(dirs, PA) /\ IsDiskFile(PAA)
    /\ IF NameA \in DOMAIN dirs[PA].files
       THEN dirs[PA].files[NameA].size # disk[PAA].size
       ELSE FALSE

\* C9: watching is off at every instant less than WATCHER_DELAY after the
\* most recent lookAway and is on again once that delay has passed; at most
\* one re-enable timer is pending, the one of the most recent call.
C9_LookAwayWindow ==
    /\ Cardinality(lookQ) <= 1
    /\ (lastLook # Null /\ now < lastLook + WATCHER_DELAY) => ~watching
    /\ ~watching =>
          /\ lookQ = {lastLook + WATCHER_DELAY}
          /\ now <= lastLook + WATCHER_DELAY
    /\ watching => lookQ = {}

\* C9 witness: a second lookAway came inside the window of an earlier one,
\* and watching is on again WATCHER_DELAY after the second
C9_Witness ==
    /\ res.seq >= 2 /\ res.op = "save"
    /\ lastLook > 0 /\ lastLook < WATCHER_DELAY
    /\ now = lastLook + WATCHER_DELAY
    /\ watching /\ lookQ = {}

\* a is a strict ancestor of p
StrictAncestor(a, p) == a # p /\ a \in Ancestors(p)

\* C10: the paths emitted by a drain hold no duplicate and no strict
\* descendant of a path marked in the same window, the root included (a
\* path emitted was marked in the window).
C10_MinimalCover ==
    \A i, j \in 1..Len(emitted) :
        /\ emitted[i] = emitted[j] => i = j
        /\ ~StrictAncestor(emitted[j], emitted[i])

\* the pending window holds the marks of mkdir(p) and of mk(p/a) and of
\* nothing else: the file was just created in p, two marks are pending, and
\* the other directory `q` the client could make does not exist
MkdirMkWindow(p, q) ==
    /\ ~crashed /\ ~threw
    /\ res.op = "mk" /\ res.diskOk /\ ~res.err
    /\ lastMut = [kind |-> "file", path |-> join(p, NameA), size |-> 0]
    /\ q \notin DOMAIN disk
    /\ Len(todoDirs) = 2

\* the step is the drain of the update bus
DrainStep == todoDirs # <<>> /\ todoDirs' = <<>>

\* ls(p) lists `name` as a file of `size` bytes
ListsFile(p, name, size) ==
    IF ls(p).defined
    THEN IF name \in DOMAIN ls(p).entries
         THEN ls(p).entries[name][1] = "f" /\ ls(p).entries[name][3] = size
         ELSE FALSE
    ELSE FALSE

C12_BurstOneRescan == scanQ <= 1

\* the step is the completion of the full rescan scans[i]
FullRescanDone(i) ==
    /\ i \in 1..Len(scans)
    /\ ~initial
    /\ scans[i].phase = "walk"
    /\ scans[i].root = Root
    /\ scans' = DropAt(scans, i)
    /\ todoDirs' = Append(todoDirs, Root)

\* C13: every watcher-driven full rescan that runs to completion emits
\* exactly one 'updateall' notification.
C13_RescanEmitsUpdateAll ==
    [][\A i \in 1..Len(scans) :
          FullRescanDone(i) => evt'.updateall = evt.updateall + 1]_vars

\* the step is the completion of the rescan scans[i], full or of a subtree
RescanDone(i) ==
    /\ i \in 1..Len(scans)
    /\ ~initial
    /\ scans[i].phase = "walk"
    /\ scans' = DropAt(scans, i)
    /\ todoDirs' = Append(todoDirs, scans[i].root)

\* C14: after a rescan rooted at r completes, every key of the index whose
\* path begins with r is r or a directory returned by that traversal.
C14_RescanDropsStaleDirs ==
    [][\A i \in 1..Len(scans) :
          RescanDone(i) =>
              \A p \in DOMAIN dirs' :
                  StartsWith(p, scans[i].root) =>
                      p = scans[i].root \/ p \in ReadDirs(scans[i].snap)]_vars

\* p is a file entry of its parent directory
IsFileEntry(p) ==
    IF Truthy(dirs, dirname(p)) THEN GetFile(dirs, p) # Undef ELSE FALSE

\* C19: when the index has been rebuilt by a rescan, a subdirectory that
\* cannot be read is neither a key nor a file entry of its parent, and the
\* readable nodes beside it are indexed.
C19_UnreadableDirAbsent ==
    (Serving /\ ~threw /\ scans = <<>> /\ scanQ = 0 /\ evt.scheduled = 0) =>
        \A p \in DOMAIN disk :
            IF disk[p].dir /\ ~disk[p].read
            THEN /\ p \notin DOMAIN dirs
                 /\ ~IsFileEntry(p)
            ELSE (\A a \in Ancestors(p) : disk[a].read) =>
                     IF disk[p].dir THEN Truthy(dirs, p) ELSE IsFileEntry(p)

\* name is <base>-<n><ext> with n >= min: a "-", then digits up to the end
\* of the name or up to the "." of an extension
NumberedName(name, min) ==
    \E i \in 1..Len(name), j \in 1..Len(name) :
        /\ i < j
        /\ name[i] = "-"
        /\ \A k \in (i + 1)..j : \E d \in 1..10 : Digits[d] = name[k]
        /\ parseInt(SubSeq(name, i + 1, j)) >= min
        /\ IF j = Len(name) THEN TRUE ELSE name[j + 1] = "."

\* the step is a paste of src to a destination that exists (or is src), and
\* the disk step has succeeded
PasteStep(src, dst) ==
    /\ \E type \in {"cut", "copy"} : clipboardHandler(src, dst, type, FALSE)
    /\ dst \in DOMAIN disk \/ src = dst
    /\ disk' # disk

\* the name ends in -0, before its extension if it has one
EndsDashZero(name) ==
    \E i \in 1..(Len(name) - 1) :
        /\ name[i] = "-" /\ name[i + 1] = "0"
        /\ IF i + 1 = Len(name) THEN TRUE ELSE name[i + 2] = "."

\* C15 (as claimed): a paste onto an existing destination uses a
\* destination <base>-<n><ext> with n >= 2 that did not exist before.
C15_PasteTargetFromTwo ==
    [][\A sd \in PastePairs :
          PasteStep(sd[1], sd[2]) =>
              /\ DOMAIN disk' \ DOMAIN disk = {lastMut'.path}
              /\ NumberedName(basename(lastMut'.path), 2)]_vars

\* C15 (amended): the destination used is <base>-<n><ext>, did not exist
\* before, and n >= 2 unless the name given ended in -0, which becomes -1.
C15_PasteTargetNumbered ==
    [][\A sd \in PastePairs :
          PasteStep(sd[1], sd[2]) =>
              /\ DOMAIN disk' \ DOMAIN disk = {lastMut'.path}
              /\ NumberedName(basename(lastMut'.path), 1)
              /\ \/ NumberedName(basename(lastMut'.path), 2)
                 \/ EndsDashZero(basename(sd[2]))]_vars

\* C15 witness: "/a.b" was copied while "/a.b" and "/a-1.b" were there: the
\* copy is "/a-2.b"
C15_Witness ==
    /\ res.op = "cp" /\ res.diskOk
    /\ lastMut.path = Root \o <<"a", "-", "2", ".", "b">>
    /\ {Root \o <<"a", ".", "b">>, Root \o <<"a", "-", "1", ".", "b">>,
        Root \o <<"a", "-", "2", ".", "b">>} \subseteq DOMAIN disk

\* the request is answered with an error and neither the disk nor the
\* index nor the marks of the update bus have changed
Rejected ==
    /\ sess'.sent # <<>>
    /\ UNCHANGED <<disk, dirs, todoDirs>>

\* C16: a rename whose paths fail validation, whose destination is blank,
\* equals the source or lies inside the source is rejected with an error and
\* leaves disk and index alone; so is a paste into the source itself.
C16_InvalidMoveRejected ==
    [][/\ \A sd \in RenamePairs, fault \in BOOLEAN :
            /\ renameHandler(sd[1], sd[2], fault)
            /\ \/ ~validatePaths({sd[1], sd[2]})
               \/ Blank(sd[2])
               \/ sd[1] = sd[2]
               \/ UnderDir(sd[2], sd[1])
            => Rejected
       /\ \A sd \in PastePairsIn, type \in {"cut", "copy"}, fault \in BOOLEAN :
            (clipboardHandler(sd[1], sd[2], type, fault) /\ UnderDir(sd[2], sd[1]))
            => Rejected]_vars

\* with config.readOnly set nothing touches the disk, looks away or counts
\* as an operation of the file tree, and no batch is started
ReadOnlyFrame ==
    /\ UNCHANGED <<disk, res, watching, timer, lookQ, lastLook, lastMut>>
    /\ sess'.todo = <<>>
    /\ sess' # sess => UNCHANGED <<dirs, todoDirs>>

LaterItems == OtherItems(Tail(sess.todo), Head(sess.todo).item)

MovedDir(src, dst) ==
    /\ res.seq = 0
    /\ IsDiskDir(src)
    /\ move(src, dst, FALSE)
    /\ res'.diskOk /\ ~res'.err /\ ~threw'

\* the keys of the moved subtree are now below dst, with the same files
Rekeyed(src, dst) ==
    /\ \A k \in DOMAIN dirs' : k # src /\ ~UnderDir(k, src)
    /\ \A k \in DOMAIN dirs :
          (k = src \/ UnderDir(k, src)) =>
              /\ Rekey(k, src, dst) \in DOMAIN dirs'
              /\ dirs'[Rekey(k, src, dst)].files = dirs[k].files

\* the entries outside the moved subtree keep their files and mtime
OutsideKept(src, dst) ==
    \A k \in DOMAIN dirs :
        (k # src /\ ~UnderDir(k, src) /\ k # dst) =>
            /\ k \in DOMAIN dirs'
            /\ dirs'[k].files = dirs[k].files
            /\ dirs'[k].mtime = dirs[k].mtime

\* C20: after move(src, dst) of a directory succeeds the subtree is rekeyed,
\* the rest of the index is unchanged, and the sizes of the old parent, the
\* new parent and "/" are their own files plus their child directories.
C20_MoveDirFrame ==
    [][\A sd \in {<<PAB, PB>>} :
          MovedDir(sd[1], sd[2]) =>
              /\ Rekeyed(sd[1], sd[2])
              /\ OutsideKept(sd[1], sd[2])
              /\ SizeEq(dirname(sd[1]))'
              /\ SizeEq(dirname(sd[2]))'
              /\ SizeEq(Root)']_vars

\* the step is del(p) and it has succeeded
Deleted(p) ==
    /\ del(p, FALSE)
    /\ res'.diskOk /\ ~res'.err /\ ~threw'

\* the entry of key k is the same but for its size
SameButSize(k) ==
    /\ k \in DOMAIN dirs'
    /\ dirs'[k].files = dirs[k].files
    /\ dirs'[k].mtime = dirs[k].mtime

\* the entry of key k is the same, and its size too unless k is above p
KeptBeside(k, p) ==
    /\ SameButSize(k)
    /\ (k \notin Ancestors(p) => dirs'[k].size = dirs[k].size)

\* C21: after del(p) of a directory succeeds no key is p or below p and every
\* other entry (a sibling that has p as a string prefix too) is unchanged
\* apart from the sizes of p's ancestors; del of a file removes that one
\* file entry from its parent and nothing else.
C21_DelFrame ==
    [][\A p \in {PA, PAB, PAA} :
          Deleted(p) =>
              IF IsDiskDir(p)
              THEN /\ \A k \in DOMAIN dirs' : k # p /\ ~UnderDir(k, p)
                   /\ \A k \in DOMAIN dirs :
                         (k # p /\ ~UnderDir(k, p)) => KeptBeside(k, p)
              ELSE /\ DOMAIN dirs' = DOMAIN dirs
                   /\ \A k \in DOMAIN dirs \ {dirname(p)} : KeptBeside(k, p)
                   /\ dirs'[dirname(p)].mtime = dirs[dirname(p)].mtime
                   /\ DOMAIN dirs'[dirname(p)].files =
                          DOMAIN dirs[dirname(p)].files \ {basename(p)}
                   /\ \A n \in DOMAIN dirs'[dirname(p)].files :
                         dirs'[dirname(p)].files[n] = dirs[dirname(p)].files[n]]_vars

\* /a has been deleted from an index that held /a, /a/b and the sibling /ab
C21_Witness ==
    /\ res.op = "unlinkdir" /\ res.diskOk /\ ~res.err /\ ~threw
    /\ PA \notin DOMAIN disk
    /\ PAb \in DOMAIN dirs
    /\ PA \notin DOMAIN dirs

\* C22: addFilesPath(p) returns the root itself or a path inside the root
\* directory, never a real path outside it, ".." segments or not.
C22_AddFilesPathInside ==
    util.fn = "addFilesPath" =>
        (util.ret = FilesDir \/ UnderDir(util.ret, FilesDir))

\* p is the result of addFilesPath and removeFilesPath has been applied to it
RoundTrip(p) == util.fn = "removeFilesPath" /\ util.arg = addFilesPath(p)

\* C23: for every path p that passes isPathSane(p, false),
\* removeFilesPath(addFilesPath(p)) equals p.
C23_RoundTrip ==
    \A p \in PathInputs : (isPathSane(p) /\ RoundTrip(p)) => util.ret = p

\* p is "/" or begins with "/", has no backslash and no "|", no doubled "/"
\* and no "/" at its end
Normal(p) ==
    /\ p # <<>>
    /\ p[1] = "/"
    /\ \A i \in 1..Len(p) : p[i] \notin {"\\", "|"}
    /\ \A i \in 1..(Len(p) - 1) : ~(p[i] = "/" /\ p[i + 1] = "/")
    /\ (p = Root \/ p[Len(p)] # "/")

\* isPathSane(p, false) returns true, whatever lastIndex it finds
Passes(p) == \E li \in 0..Len(p) : isPathSaneAt(p, li).ok

\* C23 (amended): for a path p that passes isPathSane(p, false),
\* removeFilesPath(addFilesPath(p)) equals p exactly when p is in normal form.
C23_RoundTripOfNormal ==
    \A p \in PathInputs :
        (Passes(p) /\ RoundTrip(p)) => (util.ret = p <=> Normal(p))

\* /a/b has made the round trip, after calls of other path functions
C23_Witness ==
    /\ RoundTrip(PAB)
    /\ util.ret = PAB
    /\ util.lastIndex > 0

\* filename validity as the claim gives it
ValidName(name) ==
    /\ Len(name) <= MaxNameLength
    /\ \A i \in 1..Len(name) : name[i] \notin ReservedChars
    /\ ~windowsReserved(name)
    /\ name \notin {<<".">>, <<".", ".">>}

\* C24: isPathSane(p, false) returns true if and only if every segment of p
\* (the empty ones aside) is a valid file name, for every call in any
\* sequence of calls.
C24_SaneIffSegmentsValid ==
    util.fn = "isPathSane" =>
        (util.ok <=> \A name \in Segments(util.arg) \ {<<>>} : ValidName(name))

\* the index d with every size field at 0
Zeroed(d) == [p \in DOMAIN d |-> [d[p] EXCEPT !.size = 0]]

\* C25: a second call of updateDirSizes right after a call leaves every size
\* as the first call made it, whatever the size fields held before, and the
\* sizes a call leaves depend on the file sizes and the keys only.
C25_SizesIdempotent ==
    [][UpdateDirSizes =>
          /\ util.fn = "updateDirSizes" => dirs' = dirs
          /\ dirs' = updateDirSizes(Zeroed(dirs))
          /\ Zeroed(dirs') = Zeroed(dirs)]_vars

\* updateDirSizes has been called on an index whose sizes had drifted
C25_Witness ==
    /\ util.fn = "updateDirSizes"
    /\ util.arg # dirs
    /\ PB \in DOMAIN dirs
    /\ dirs[PA].size = 1 + MaxSize

\* the directories whose parent is p
ChildDirs(p) == {d \in DOMAIN dirs : d # p /\ dirname(d) = p}

\* ls(p) returns what the claim gives when p is a key: one entry per file of
\* p, one per child directory, under their names (it raises a TypeError on an
\* undefined file entry)
ListsChildren(p) ==
    IF ~Truthy(dirs, p) \/ BadEntry(dirs, p) THEN FALSE
    ELSE /\ ls(p).defined
         /\ DOMAIN ls(p).entries =
                DOMAIN dirs[p].files \cup {basename(d) : d \in ChildDirs(p)}
         /\ Cardinality(DOMAIN ls(p).entries) =
                Cardinality(DOMAIN dirs[p].files) + Cardinality(ChildDirs(p))

\* C26: ls(p) is undefined when p is not a key of the index; otherwise it
\* has exactly one entry per file directly in p and one per directory whose
\* parent is p, by basename, and neither p itself nor a deeper descendant.
C26_LsListsChildren ==
    Serving =>
        \A p \in {Root, PA, PB, PAB, PAA} :
            IF p \in DOMAIN dirs THEN ListsChildren(p) ELSE ~ls(p).defined

\* what search is asked, and where
Queries == {<<>>, <<"a">>, <<"A">>, <<"b">>, <<"B">>}

\* C27: search(query, scope) matches whatever the case, never returns the
\* scope itself, returns null when nothing matches, when the scope is not in
\* the index or when the query is empty, and else names relative to scope.
C27_SearchResult ==
    Serving =>
        \A query \in Queries, p \in {Root, PA, PB, PAB} :
            LET r == search(query, p)
            IN  /\ ~r.threw
                /\ r = search(toLowerCase(query), p)
                /\ (query = <<>> \/ p \notin DOMAIN dirs) => r.null
                /\ ~r.null =>
                      /\ <<>> \notin DOMAIN r.entries
                      /\ \A n \in DOMAIN r.entries :
                            \E x \in DOMAIN dirs \cup
                                     {join(d, f) : d \in DOMAIN dirs, f \in {NameA, NameB}} :
                                /\ StartsWith(x, p)
                                /\ x # p
                                /\ n = relative(p, x)
                                /\ includes(toLowerCase(x), toLowerCase(query))

\* the latest drain has emitted 'update' for p or for an ancestor of p
Notified(p) ==
    \E i \in 1..Len(emitted) : emitted[i] = p \/ UnderDir(p, emitted[i])

Pending(p) == \E i \in 1..Len(todoDirs) : todoDirs[i] = p

\* C28: every path passed to update(p) is in the end covered by an emitted
\* 'update' notification, for p or an ancestor of p, and has then left the
\* pending set: no dirty mark is dropped without a notification.
C28_MarksNotified ==
    \A p \in {Root, PA, PAB} : Pending(p) ~> (~Pending(p) /\ Notified(p))

\* C29: an operation calls lookAway before its disk step, and from that call
\* until its patch of the index is applied no watcher event is accepted and
\* no rescan is scheduled, however long the disk step takes.
C29_NoRescanDuringOperation ==
    [][/\ CpdirBegin({<<PAB, PB>>}) => (~watching' /\ disk' = disk)
       /\ sess.todo # <<>> =>
             evt'.scheduled = evt.scheduled]_vars

\* the sub-operation clipboard picks for a source and a type
SubOperation(src, type) ==
    IF stat(src) = "file"
    THEN (IF type = "cut" THEN "mv" ELSE "cp")
    ELSE (IF type = "cut" THEN "mvdir" ELSE "cpdir")

\* the index d has p, as a file of its directory or as a key
Indexed(d, p, kind) ==
    IF kind = "file"
    THEN Truthy(d, dirname(p)) /\ basename(p) \in DOMAIN d[dirname(p)].files
    ELSE p \in DOMAIN d

\* C30: clipboard on a file or a directory runs the one sub-operation its
\* stat and type select (file: mv for cut, cp for copy; directory: mvdir for
\* cut, cpdir for copy); when that sub-operation has succeeded on disk and
\* in the index, the promise of clipboard still rejects, and the patch
\* stays in the index: the destination is indexed and, after a cut, the
\* source is not.
C30_ClipboardRejects ==
    [][\A sd \in {<<PAB, PB>>, <<PAA, PB>>}, type \in {"cut", "copy"},
          fault \in BOOLEAN :
            (clipboard(sd[1], sd[2], type, fault) /\ stat(sd[1]) # "ENOENT") =>
                /\ res'.op = SubOperation(sd[1], type)
                /\ (res'.diskOk /\ ~crashed' /\ threw' = threw) =>
                      /\ res'.err
                      /\ Indexed(dirs', sd[2], stat(sd[1]))
                      /\ type = "cut" => ~Indexed(dirs', sd[1], stat(sd[1]))]_vars

\* a cut of the file /a/a to /b has succeeded on disk and in the index, and
\* the caller was given an error
C30_Witness ==
    /\ res.op = "mv" /\ res.diskOk /\ res.err
    /\ ~crashed /\ ~threw
    /\ PB \in DOMAIN disk /\ PAA \notin DOMAIN disk
    /\ Indexed(dirs, PB, "file")

\* the virtual paths the createFolders and createFiles requests ask for
RequestedPaths ==
    {fs[i] : fs \in FolderBatches, i \in 1..2}
        \cup {fs[i] : fs \in FileBatches, i \in 1..2}
        \cup {dirname(fs[i]) : fs \in FileBatches, i \in 1..2}

\* C31: what a createFolders or createFiles request creates on disk is the
\* node of a requested virtual path (the files directory joined with it
\* once), and the index has the new entry under that same virtual path.
C31_CreatedAtVirtualPath ==
    [][(/\ BatchStep
        /\ sess.todo # <<>>
        /\ Head(sess.todo).op \in {"mkdir", "mk"}
        /\ disk' # disk) =>
            LET job == Head(sess.todo)
            IN  \E p \in RequestedPaths :
                   /\ job.path = addFilesPath(p)
                   /\ p \in DOMAIN disk'
                   /\ res'.err \/ Indexed(dirs', p,
                                    IF job.op = "mk" THEN "file" ELSE "dir")]_vars

\* the step is a move that resolved: the operation ran, reported no error
\* and the process is alive
MoveResolved == res'.seq = res.seq + 1 /\ ~res'.err /\ ~crashed'

\* C32: when the move of a rename request has succeeded, every share link
\* whose location was src has location dst and every other link is as it
\* was; when the move fails no link changes; a link changes only in a step
\* whose move has been carried out on disk.
C32_LinksFollowRename ==
    [][/\ \A sd \in LinkPairs, fault \in BOOLEAN :
            renameHandler(sd[1], sd[2], fault) =>
                IF MoveResolved
                THEN \A l \in DOMAIN links :
                        links'[l].location =
                            IF links[l].location = sd[1] THEN sd[2]
                            ELSE links[l].location
                ELSE links' = links
       /\ links' # links =>
            /\ MoveResolved /\ res'.diskOk /\ res'.op \in {"mv", "mvdir"}
            /\ \E l \in DOMAIN links :
                  /\ links'[l] # links[l]
                  /\ links[l].location \notin DOMAIN disk'
                  /\ links'[l].location \in DOMAIN disk']_vars

\* /a/b has been renamed to /b: both links of /a/b are links of /b, the link
\* of the file /a/a is as it was
C32_Witness ==
    /\ IsDiskDir(PB) /\ PAB \notin DOMAIN disk
    /\ links["k1"].location = PB /\ links["k2"].location = PB
    /\ links["k3"].location = PAA
    /\ ~crashed

\* the directories of an index with the names and sizes of their files
Shape(d) ==
    [p \in DOMAIN d |->
        IF d[p] = Undef THEN Undef
        ELSE [n \in DOMAIN d[p].files |-> d[p].files[n].size]]

\* the index a full rescan of the disk dsk builds from nothing
FreshIndex(dsk) ==
    updateDirInCache([p \in {} |-> Undef], Root, Walk(dsk))

\* the index has the directories, file names and file sizes of the disk
InSync == ~crashed /\ Shape(dirs) = Shape(FreshIndex(disk))

\* C33: a change another process makes under the root, at any time, inside
\* a suppression window or not, is in the end reflected in the index when
\* the filesystem stays quiet afterwards: the index comes to equal the disk
\* without a further filesystem event.
C33_ExternalChangeReflected == (evt.external # "none") ~> InSync

\* the step is a copy whose disk step and patch went through
CopyDone(op) ==
    /\ res'.seq = res.seq + 1 /\ res'.op = op /\ res'.diskOk
    /\ ~crashed' /\ threw' = threw

\* the index entries at and below root
Below(d, root) ==
    [k \in {x \in DOMAIN d : x = root \/ UnderDir(x, root)} |-> d[k]]

\* in d1 the keys at and below dst are those of d0 at and below src, each
\* with the file names and sizes of its source and mtime t
CopiedEntries(d0, d1, src, dst, t) ==
    /\ DOMAIN Below(d1, dst) = {Rekey(k, src, dst) : k \in DOMAIN Below(d0, src)}
    /\ \A k \in DOMAIN Below(d0, src) :
          /\ Shape(d1)[Rekey(k, src, dst)] = Shape(d0)[k]
          /\ d1[Rekey(k, src, dst)].size = d1[k].size
          /\ d1[Rekey(k, src, dst)].mtime = t

\* C34: after cpdir every directory below dst has the file names and sizes
\* of its source at copy time and mtime = now, after cp the file entry of
\* dst has the size of the source and mtime = now; a later save, mk or del
\* below the source leaves the entries below the copy as they were, and one
\* below the copy leaves the entries of the source as they were.
C34_CopiesIndependent ==
    [][/\ CopyDone("cpdir") => CopiedEntries(dirs, dirs', PA, PB, now)
       /\ CopyDone("cp") =>
            /\ Indexed(dirs', PABB, "file")
            /\ GetFile(dirs', PABB).size = GetFile(dirs, PAA).size
            /\ GetFile(dirs', PABB).mtime = now
            /\ GetFile(dirs', PAA) = GetFile(dirs, PAA)
       /\ (Save({PAA}) \/ Mk({PABB}) \/ Del({PAB})) =>
            Below(dirs', PB) = Below(dirs, PB)
       /\ (Save({PBA}) \/ Mk({PBBB}) \/ Del({PBB})) =>
            Below(dirs', PA) = Below(dirs, PA)
       /\ (Save({PAA}) /\ Indexed(dirs, PABB, "file")) =>
            GetFile(dirs', PABB) = GetFile(dirs, PABB)
       /\ (Save({PABB}) /\ Indexed(dirs, PAA, "file")) =>
            GetFile(dirs', PAA) = GetFile(dirs, PAA)]_vars

\* /a has been copied to /b, with /b/b below it, and a save of /a/a has
\* then given the source a size the copy /b/a does not have
C34_Witness ==
    /\ res.op = "save" /\ res.diskOk /\ ~crashed /\ ~threw
    /\ PBB \in DOMAIN dirs /\ Indexed(dirs, PBA, "file") /\ Indexed(dirs, PAA, "file")
    /\ GetFile(dirs, PBA).size # GetFile(dirs, PAA).size
    /\ IsDiskFile(PBA) /\ disk[PBA].size # disk[PAA].size

\* the step is a mutation operation whose disk step and patch went through
OpDone ==
    /\ res'.seq = res.seq + 1 /\ res'.diskOk
    /\ ~crashed' /\ threw' = threw

\* C35: with no change from outside and one operation at a time, a
\* successful mk, mkdir, save, del, move, cp or cpdir takes an index that
\* has the directories, file names and file sizes of a full rescan of the
\* disk to an index that has those of a full rescan of the new disk.
C35_IndexAsFreshScan ==
    [][(InSync /\ OpDone) =>
          Shape(dirs') = Shape(FreshIndex(disk'))]_vars

\* every rescan scheduled so far has completed
RescansDone == ~crashed /\ ~initial /\ scanQ = 0 /\ scans = <<>>

\* C36: when the full rescans the watcher has started, overlapping or not,
\* have all completed and the disk is as the latest traversal read it, the
\* index has exactly the directories and files of that traversal: nothing
\* that only an earlier traversal found is left.
C36_LastTraversalWins ==
    (RescansDone /\ evt.read = disk) => Shape(dirs) = Shape(FreshIndex(disk))

\* C37: two pastes in flight at the same time never have the same final
\* destination, so neither writes over the file or the entry of the other.
C37_PastesLandApart ==
    \A i, j \in 1..Len(sess.todo) :
        i # j => sess.todo[i].item # sess.todo[j].item

\* C38: isPathSane (and isValidFilename through it) gives for a string s
\* the result a fresh process gives, whatever other string the call before
\* was made on: no state is carried from one call to the next.
C38_PathChecksPure ==
    [][\A p \in PathInputs :
          (IsPathSane({p}) /\ util.arg # p) => util'.ok = isPathSane(p)]_vars

\* x lies below the directory p
Inside(x, p) == IF p = Root THEN x # Root ELSE UnderDir(x, p)

\* C39: every entry search(query, scope) returns is a file or a directory
\* below scope: its name does not leave the scope through ".." and names a
\* key below scope or a file of a directory at or below scope, never one of
\* a sibling whose path only begins with the characters of scope.
C39_SearchInsideScope ==
    Serving =>
        \A query \in Queries, p \in {Root, PA, PAB} :
            LET r == search(query, p)
            IN  (~r.threw /\ ~r.null) =>
                    \A n \in DOMAIN r.entries :
                        /\ ~StartsWith(n, <<".", ".">>)
                        /\ \/ \E d \in DOMAIN dirs :
                                 Inside(d, p) /\ n = relative(p, d)
                           \/ \E d \in DOMAIN dirs :
                                 /\ d = p \/ Inside(d, p)
                                 /\ Truthy(dirs, d)
                                 /\ \E f \in DOMAIN dirs[d].files :
                                       n = relative(p, join(d, f))

\* the run named a command and stopped short of a request for want of a known
\* command, a URL or an argument the command requires
UsageError ==
    IF cli.argv = <<>> THEN FALSE
    ELSE IF Head(cli.argv) \notin Commands THEN TRUE
    ELSE IF Len(cli.argv) < 2 THEN TRUE
    ELSE IF cli.argv[2] = "" THEN TRUE
    ELSE IF Head(cli.argv) = "ping" THEN FALSE
    ELSE IF Len(cli.argv) < 3 THEN TRUE
    ELSE IF Head(cli.argv) = "move" THEN Len(cli.argv) < 4
    ELSE Head(cli.argv) = "write" /\ cli.content = "none" /\ cli.file = "none"

\* C40: a run of droppy-remote that named a command exits with status 0 only
\* when its request was answered with success, and with status 1 whenever the
\* command is unknown, the URL or a required argument is missing, or the
\* request was rejected
C40_ExitStatus ==
    (cli.pc = "exited" /\ cli.argv # <<>>) =>
        /\ (cli.exit = 0 => cli.answer \in {"ok", "empty"})
        /\ (UsageError \/ cli.answer \in Rejections => cli.exit = 1)

=============================================================================
